---- MODULE Spec2Model ----
(***************************************************************************)
(* Mind-map generator tools (vertical, org chart, fishbone, circular,      *)
(* timeline): the _invoke generator of a tool instance, its scoped          *)
(* temporary directory, the render function's use of self.style_renderer,   *)
(* and the Markdown parsers.                                                *)
(*                                                                         *)
(* Text is modelled as a sequence of one-character strings.  Characters     *)
(* outside ASCII are written by their code point, e.g. "U300A" for the      *)
(* left book-title bracket.                                                 *)
(***************************************************************************)
EXTENDS Integers, Sequences, FiniteSets, TLC

VARIABLES
    tool,            \* which tool class the shared instance is
    style_renderer,  \* self.style_renderer, an attribute of the tool instance
    frame,           \* frame[i]: the locals of the i-th _invoke generator
    parser,          \* the locals of a parser call that is looked at alone
    call             \* a call of one of the other functions, looked at alone

vars == <<tool, style_renderer, frame, parser, call>>

---------------------------------------------------------------------------
(* Bounds *)

NumInvocations == 2
MaxLines == 4
MaxTextLen == 4
MaxSpaces == 2
MaxLimit == 3
MaxDepth == 6
MaxGap == 25
MaxChain == 7
MaxBranches == 7
RecursionLimit == 5
MaxFanout == 3
MaxLayoutDepth == 3
MaxOrgDepth == 4
MaxCategories == 3
MaxEvents == 2
MaxDetails == 6
MaxAddNodes == 2

Invocations == 1..NumInvocations

---------------------------------------------------------------------------
(* Strings *)

\* str.isspace() and the class \s of a str pattern: the characters
\* str.strip(), lstrip() and rstrip() remove (Unicode 14)
WhitespaceChars ==
    { " ", "\t", "\n", "\r", "\f", "U000B", "U001C", "U001D", "U001E", "U001F",
      "U0085", "U00A0", "U1680", "U2000", "U2001", "U2002", "U2003", "U2004", "U2005", "U2006",
      "U2007", "U2008", "U2009", "U200A", "U2028", "U2029", "U202F", "U205F", "U3000" }

\* the characters bytes.strip() removes
BytesWhitespaceChars ==
    { " ", "\t", "\n", "\r", "\f", "U000B" }

IsBlank(s) == \A k \in 1..Len(s) : s[k] \in WhitespaceChars

\* str.lstrip(): drop the leading whitespace
LStrip(s) ==
    IF IsBlank(s) THEN <<>>
    ELSE LET k == CHOOSE n \in 1..Len(s) :
                      /\ s[n] \notin WhitespaceChars
                      /\ \A j \in 1..(n - 1) : s[j] \in WhitespaceChars
         IN SubSeq(s, k, Len(s))

\* str.rstrip(): drop the trailing whitespace
RStrip(s) ==
    IF IsBlank(s) THEN <<>>
    ELSE LET k == CHOOSE n \in 1..Len(s) :
                      /\ s[n] \notin WhitespaceChars
                      /\ \A j \in (n + 1)..Len(s) : s[j] \in WhitespaceChars
         IN SubSeq(s, 1, k)

\* str.strip()
Strip(s) == RStrip(LStrip(s))

\* s.startswith(prefix)
StartsWith(s, prefix) ==
    Len(s) >= Len(prefix) /\ SubSeq(s, 1, Len(prefix)) = prefix

\* s[k:] for a zero-based k
From(s, k) == SubSeq(s, k + 1, Len(s))

\* str.split(sep) for a one-character separator
RECURSIVE Split(_, _)
Split(s, sep) ==
    IF \A k \in 1..Len(s) : s[k] /= sep THEN <<s>>
    ELSE LET k == CHOOSE n \in 1..Len(s) :
                      s[n] = sep /\ \A j \in 1..(n - 1) : s[j] /= sep
         IN <<SubSeq(s, 1, k - 1)>> \o Split(SubSeq(s, k + 1, Len(s)), sep)

\* sep.join(parts)
RECURSIVE Join(_, _)
Join(parts, sep) ==
    IF parts = <<>> THEN <<>>
    ELSE IF Len(parts) = 1 THEN parts[1]
    ELSE parts[1] \o <<sep>> \o Join(Tail(parts), sep)

---------------------------------------------------------------------------
(* Regular expressions of the re module, as far as the program uses them.  *)
(* A pattern is a sequence of items; an item is a character class with a    *)
(* repetition range, greedy or lazy, or the anchor $.  Matching backtracks  *)
(* in the order re does, so the first match found is the match re reports.  *)

\* the class \d of a str pattern: every character of category Nd
Digits ==
    { "0", "1", "2", "3", "4", "5", "6", "7", "8", "9",
      "U0660", "U0661", "U0662", "U0663", "U0664", "U0665", "U0666", "U0667", "U0668", "U0669",
      "U06F0", "U06F1", "U06F2", "U06F3", "U06F4", "U06F5", "U06F6", "U06F7", "U06F8", "U06F9",
      "U07C0", "U07C1", "U07C2", "U07C3", "U07C4", "U07C5", "U07C6", "U07C7", "U07C8", "U07C9",
      "U0966", "U0967", "U0968", "U0969", "U096A", "U096B", "U096C", "U096D", "U096E", "U096F",
      "U09E6", "U09E7", "U09E8", "U09E9", "U09EA", "U09EB", "U09EC", "U09ED", "U09EE", "U09EF",
      "U0A66", "U0A67", "U0A68", "U0A69", "U0A6A", "U0A6B", "U0A6C", "U0A6D", "U0A6E", "U0A6F",
      "U0AE6", "U0AE7", "U0AE8", "U0AE9", "U0AEA", "U0AEB", "U0AEC", "U0AED", "U0AEE", "U0AEF",
      "U0B66", "U0B67", "U0B68", "U0B69", "U0B6A", "U0B6B", "U0B6C", "U0B6D", "U0B6E", "U0B6F",
      "U0BE6", "U0BE7", "U0BE8", "U0BE9", "U0BEA", "U0BEB", "U0BEC", "U0BED", "U0BEE", "U0BEF",
      "U0C66", "U0C67", "U0C68", "U0C69", "U0C6A", "U0C6B", "U0C6C", "U0C6D", "U0C6E", "U0C6F",
      "U0CE6", "U0CE7", "U0CE8", "U0CE9", "U0CEA", "U0CEB", "U0CEC", "U0CED", "U0CEE", "U0CEF",
      "U0D66", "U0D67", "U0D68", "U0D69", "U0D6A", "U0D6B", "U0D6C", "U0D6D", "U0D6E", "U0D6F",
      "U0DE6", "U0DE7", "U0DE8", "U0DE9", "U0DEA", "U0DEB", "U0DEC", "U0DED", "U0DEE", "U0DEF",
      "U0E50", "U0E51", "U0E52", "U0E53", "U0E54", "U0E55", "U0E56", "U0E57", "U0E58", "U0E59",
      "U0ED0", "U0ED1", "U0ED2", "U0ED3", "U0ED4", "U0ED5", "U0ED6", "U0ED7", "U0ED8", "U0ED9",
      "U0F20", "U0F21", "U0F22", "U0F23", "U0F24", "U0F25", "U0F26", "U0F27", "U0F28", "U0F29",
      "U1040", "U1041", "U1042", "U1043", "U1044", "U1045", "U1046", "U1047", "U1048", "U1049",
      "U1090", "U1091", "U1092", "U1093", "U1094", "U1095", "U1096", "U1097", "U1098", "U1099",
      "U17E0", "U17E1", "U17E2", "U17E3", "U17E4", "U17E5", "U17E6", "U17E7", "U17E8", "U17E9",
      "U1810", "U1811", "U1812", "U1813", "U1814", "U1815", "U1816", "U1817", "U1818", "U1819",
      "U1946", "U1947", "U1948", "U1949", "U194A", "U194B", "U194C", "U194D", "U194E", "U194F",
      "U19D0", "U19D1", "U19D2", "U19D3", "U19D4", "U19D5", "U19D6", "U19D7", "U19D8", "U19D9",
      "U1A80", "U1A81", "U1A82", "U1A83", "U1A84", "U1A85", "U1A86", "U1A87", "U1A88", "U1A89",
      "U1A90", "U1A91", "U1A92", "U1A93", "U1A94", "U1A95", "U1A96", "U1A97", "U1A98", "U1A99",
      "U1B50", "U1B51", "U1B52", "U1B53", "U1B54", "U1B55", "U1B56", "U1B57", "U1B58", "U1B59",
      "U1BB0", "U1BB1", "U1BB2", "U1BB3", "U1BB4", "U1BB5", "U1BB6", "U1BB7", "U1BB8", "U1BB9",
      "U1C40", "U1C41", "U1C42", "U1C43", "U1C44", "U1C45", "U1C46", "U1C47", "U1C48", "U1C49",
      "U1C50", "U1C51", "U1C52", "U1C53", "U1C54", "U1C55", "U1C56", "U1C57", "U1C58", "U1C59",
      "UA620", "UA621", "UA622", "UA623", "UA624", "UA625", "UA626", "UA627", "UA628", "UA629",
      "UA8D0", "UA8D1", "UA8D2", "UA8D3", "UA8D4", "UA8D5", "UA8D6", "UA8D7", "UA8D8", "UA8D9",
      "UA900", "UA901", "UA902", "UA903", "UA904", "UA905", "UA906", "UA907", "UA908", "UA909",
      "UA9D0", "UA9D1", "UA9D2", "UA9D3", "UA9D4", "UA9D5", "UA9D6", "UA9D7", "UA9D8", "UA9D9",
      "UA9F0", "UA9F1", "UA9F2", "UA9F3", "UA9F4", "UA9F5", "UA9F6", "UA9F7", "UA9F8", "UA9F9",
      "UAA50", "UAA51", "UAA52", "UAA53", "UAA54", "UAA55", "UAA56", "UAA57", "UAA58", "UAA59",
      "UABF0", "UABF1", "UABF2", "UABF3", "UABF4", "UABF5", "UABF6", "UABF7", "UABF8", "UABF9",
      "UFF10", "UFF11", "UFF12", "UFF13", "UFF14", "UFF15", "UFF16", "UFF17", "UFF18", "UFF19",
      "U104A0", "U104A1", "U104A2", "U104A3", "U104A4", "U104A5", "U104A6", "U104A7", "U104A8", "U104A9",
      "U10D30", "U10D31", "U10D32", "U10D33", "U10D34", "U10D35", "U10D36", "U10D37", "U10D38", "U10D39",
      "U11066", "U11067", "U11068", "U11069", "U1106A", "U1106B", "U1106C", "U1106D", "U1106E", "U1106F",
      "U110F0", "U110F1", "U110F2", "U110F3", "U110F4", "U110F5", "U110F6", "U110F7", "U110F8", "U110F9",
      "U11136", "U11137", "U11138", "U11139", "U1113A", "U1113B", "U1113C", "U1113D", "U1113E", "U1113F",
      "U111D0", "U111D1", "U111D2", "U111D3", "U111D4", "U111D5", "U111D6", "U111D7", "U111D8", "U111D9",
      "U112F0", "U112F1", "U112F2", "U112F3", "U112F4", "U112F5", "U112F6", "U112F7", "U112F8", "U112F9",
      "U11450", "U11451", "U11452", "U11453", "U11454", "U11455", "U11456", "U11457", "U11458", "U11459",
      "U114D0", "U114D1", "U114D2", "U114D3", "U114D4", "U114D5", "U114D6", "U114D7", "U114D8", "U114D9",
      "U11650", "U11651", "U11652", "U11653", "U11654", "U11655", "U11656", "U11657", "U11658", "U11659",
      "U116C0", "U116C1", "U116C2", "U116C3", "U116C4", "U116C5", "U116C6", "U116C7", "U116C8", "U116C9",
      "U11730", "U11731", "U11732", "U11733", "U11734", "U11735", "U11736", "U11737", "U11738", "U11739",
      "U118E0", "U118E1", "U118E2", "U118E3", "U118E4", "U118E5", "U118E6", "U118E7", "U118E8", "U118E9",
      "U11950", "U11951", "U11952", "U11953", "U11954", "U11955", "U11956", "U11957", "U11958", "U11959",
      "U11C50", "U11C51", "U11C52", "U11C53", "U11C54", "U11C55", "U11C56", "U11C57", "U11C58", "U11C59",
      "U11D50", "U11D51", "U11D52", "U11D53", "U11D54", "U11D55", "U11D56", "U11D57", "U11D58", "U11D59",
      "U11DA0", "U11DA1", "U11DA2", "U11DA3", "U11DA4", "U11DA5", "U11DA6", "U11DA7", "U11DA8", "U11DA9",
      "U16A60", "U16A61", "U16A62", "U16A63", "U16A64", "U16A65", "U16A66", "U16A67", "U16A68", "U16A69",
      "U16AC0", "U16AC1", "U16AC2", "U16AC3", "U16AC4", "U16AC5", "U16AC6", "U16AC7", "U16AC8", "U16AC9",
      "U16B50", "U16B51", "U16B52", "U16B53", "U16B54", "U16B55", "U16B56", "U16B57", "U16B58", "U16B59",
      "U1D7CE", "U1D7CF", "U1D7D0", "U1D7D1", "U1D7D2", "U1D7D3", "U1D7D4", "U1D7D5", "U1D7D6", "U1D7D7",
      "U1D7D8", "U1D7D9", "U1D7DA", "U1D7DB", "U1D7DC", "U1D7DD", "U1D7DE", "U1D7DF", "U1D7E0", "U1D7E1",
      "U1D7E2", "U1D7E3", "U1D7E4", "U1D7E5", "U1D7E6", "U1D7E7", "U1D7E8", "U1D7E9", "U1D7EA", "U1D7EB",
      "U1D7EC", "U1D7ED", "U1D7EE", "U1D7EF", "U1D7F0", "U1D7F1", "U1D7F2", "U1D7F3", "U1D7F4", "U1D7F5",
      "U1D7F6", "U1D7F7", "U1D7F8", "U1D7F9", "U1D7FA", "U1D7FB", "U1D7FC", "U1D7FD", "U1D7FE", "U1D7FF",
      "U1E140", "U1E141", "U1E142", "U1E143", "U1E144", "U1E145", "U1E146", "U1E147", "U1E148", "U1E149",
      "U1E2F0", "U1E2F1", "U1E2F2", "U1E2F3", "U1E2F4", "U1E2F5", "U1E2F6", "U1E2F7", "U1E2F8", "U1E2F9",
      "U1E950", "U1E951", "U1E952", "U1E953", "U1E954", "U1E955", "U1E956", "U1E957", "U1E958", "U1E959",
      "U1FBF0", "U1FBF1", "U1FBF2", "U1FBF3", "U1FBF4", "U1FBF5", "U1FBF6", "U1FBF7", "U1FBF8", "U1FBF9" }
Unbounded == -1

Lit(c) == [kind |-> "set", cs |-> {c}, lo |-> 1, hi |-> 1, lazy |-> FALSE]
Rep(cs, lo, hi) == [kind |-> "set", cs |-> cs, lo |-> lo, hi |-> hi, lazy |-> FALSE]
RepLazy(cs, lo, hi) == [kind |-> "set", cs |-> cs, lo |-> lo, hi |-> hi, lazy |-> TRUE]
Opt(c) == Rep({c}, 0, 1)
AnyLazy == [kind |-> "any", cs |-> {}, lo |-> 0, hi |-> Unbounded, lazy |-> TRUE]
EndAnchor == [kind |-> "end", cs |-> {}, lo |-> 0, hi |-> 0, lazy |-> FALSE]

Accepts(item, c) == IF item.kind = "any" THEN c /= "\n" ELSE c \in item.cs

NoMatch == [ok |-> FALSE, ends |-> <<>>]

\* the longest run of characters of s from pos on that the item accepts
RunLength(item, s, pos) ==
    LET cap == IF item.hi = Unbounded THEN Len(s) - pos + 1
               ELSE IF item.hi < Len(s) - pos + 1 THEN item.hi
               ELSE Len(s) - pos + 1
        fits(n) == \A k \in pos..(pos + n - 1) : Accepts(item, s[k])
    IN CHOOSE n \in 0..cap : fits(n) /\ \A m \in (n + 1)..cap : ~fits(m)

RECURSIVE MatchItems(_, _, _, _)
RECURSIVE TryCounts(_, _, _, _, _, _)

\* Items j.. of pat matched against s from position pos (one-based) on:
\* ends[k] is the position of the last character item j+k-1 consumed.
MatchItems(pat, j, s, pos) ==
    IF j > Len(pat) THEN [ok |-> TRUE, ends |-> <<>>]
    ELSE IF pat[j].kind = "end"
    THEN IF pos = Len(s) + 1
         THEN LET r == MatchItems(pat, j + 1, s, pos)
              IN IF r.ok THEN [ok |-> TRUE, ends |-> <<pos - 1>> \o r.ends]
                 ELSE NoMatch
         ELSE NoMatch
    ELSE LET run == RunLength(pat[j], s, pos)
         IN IF run < pat[j].lo THEN NoMatch
            ELSE TryCounts(pat, j, s, pos,
                           IF pat[j].lazy THEN pat[j].lo ELSE run, run)

\* Item j takes n characters; on failure of the rest, the next count in the
\* item's order (one fewer when greedy, one more when lazy).
TryCounts(pat, j, s, pos, n, run) ==
    IF n < pat[j].lo \/ n > run THEN NoMatch
    ELSE LET r == MatchItems(pat, j + 1, s, pos + n)
         IN IF r.ok THEN [ok |-> TRUE, ends |-> <<pos + n - 1>> \o r.ends]
            ELSE TryCounts(pat, j, s, pos,
                           IF pat[j].lazy THEN n + 1 ELSE n - 1, run)

\* re.match(pattern, s): a match at the start of s
ReMatch(pat, s) == MatchItems(pat, 1, s, 1)

\* re.search(pattern, s): the leftmost match; start is its first position
ReSearch(pat, s) ==
    IF \E p \in 1..(Len(s) + 1) : MatchItems(pat, 1, s, p).ok
    THEN LET p == CHOOSE q \in 1..(Len(s) + 1) :
                      /\ MatchItems(pat, 1, s, q).ok
                      /\ \A r \in 1..(q - 1) : ~MatchItems(pat, 1, s, r).ok
             m == MatchItems(pat, 1, s, p)
         IN [ok |-> TRUE, start |-> p, ends |-> m.ends]
    ELSE [ok |-> FALSE, start |-> 0, ends |-> <<>>]

\* the text item g of a match that began at start consumed
Group(s, start, ends, g) ==
    SubSeq(s, IF g = 1 THEN start ELSE ends[g - 1] + 1, ends[g])

\* The replacement text is a sequence of parts: Ch(c) is the character c,
\* Grp(k) the text of item k.
Ch(c) == [g |-> 0, c |-> c]
Grp(k) == [g |-> k, c |-> ""]

RECURSIVE Expand(_, _, _, _)
Expand(repl, s, start, ends) ==
    IF repl = <<>> THEN <<>>
    ELSE (IF repl[1].g = 0 THEN <<repl[1].c>>
          ELSE Group(s, start, ends, repl[1].g))
         \o Expand(Tail(repl), s, start, ends)

\* re.sub(pattern, repl, s) for a pattern that matches no empty string
RECURSIVE SubFrom(_, _, _, _)
SubFrom(pat, repl, s, pos) ==
    IF pos > Len(s) THEN <<>>
    ELSE LET m == MatchItems(pat, 1, s, pos)
         IN IF m.ok /\ m.ends[Len(m.ends)] >= pos
            THEN Expand(repl, s, pos, m.ends)
                     \o SubFrom(pat, repl, s, m.ends[Len(m.ends)] + 1)
            ELSE <<s[pos]>> \o SubFrom(pat, repl, s, pos + 1)

ReSub(pat, repl, s) == SubFrom(pat, repl, s, 1)

\* re.sub('^...', repl, s): the pattern can match at the start only
ReSubAtStart(pat, repl, s) ==
    LET m == MatchItems(pat, 1, s, 1)
    IN IF m.ok
       THEN Expand(repl, s, 1, m.ends) \o SubSeq(s, m.ends[Len(m.ends)] + 1, Len(s))
       ELSE s

---------------------------------------------------------------------------
(* Text cleanup: _clean_markdown_text *)

Star == Lit("*")
AnyWhitespace == Rep(WhitespaceChars, 0, Unbounded)
SomeWhitespace == Rep(WhitespaceChars, 1, Unbounded)

BoldPattern == <<Star, Star, AnyLazy, Star, Star>>          \* \*\*(.*?)\*\*
ItalicPattern == <<Star, AnyLazy, Star>>                    \* \*(.*?)\*
BoldLabelPattern ==                                         \* \*\*(.*?)\*\*:\s*
    <<Star, Star, AnyLazy, Star, Star, Lit(":"), AnyWhitespace>>

\* text.replace(c, '')
RECURSIVE RemoveChar(_, _)
RemoveChar(s, c) ==
    IF s = <<>> THEN <<>>
    ELSE (IF s[1] = c THEN <<>> ELSE <<s[1]>>) \o RemoveChar(Tail(s), c)

\* text.strip() moved in front of the substitutions
CleanMarkdownTextMutantStripFirst(text) ==
    LET t1 == ReSub(BoldPattern, <<Grp(3)>>, Strip(text))
        t2 == ReSub(ItalicPattern, <<Grp(2)>>, t1)
        t3 == RemoveChar(RemoveChar(t2, "U300A"), "U300B")
    IN ReSub(BoldLabelPattern, <<Grp(3), Ch(":"), Ch(" ")>>, t3)

\* the vertical, org chart, fishbone and circular tools
CleanMarkdownText(text) ==
    LET t1 == ReSub(BoldPattern, <<Grp(3)>>, text)
        t2 == ReSub(ItalicPattern, <<Grp(2)>>, t1)
        t3 == RemoveChar(RemoveChar(t2, "U300A"), "U300B")
        t4 == ReSub(BoldLabelPattern, <<Grp(3), Ch(":"), Ch(" ")>>, t3)
    IN Strip(t4)

\* the timeline tool keeps the book-title brackets
CleanMarkdownTextTimeline(text) ==
    Strip(ReSub(ItalicPattern, <<Grp(2)>>, ReSub(BoldPattern, <<Grp(3)>>, text)))

---------------------------------------------------------------------------
(* The generic tree parser: _parse_markdown_to_tree (vertical, org chart)  *)

NumberedItemPattern ==                                      \* ^\s*\d+\.\s+
    <<AnyWhitespace, Rep(Digits, 1, Unbounded), Lit("."), SomeWhitespace>>
NumberedPrefixPattern ==                                    \* ^\s*\d+\.\s*
    <<AnyWhitespace, Rep(Digits, 1, Unbounded), Lit("."), AnyWhitespace>>
BulletItemPattern ==                                        \* ^\s*[-\*\+]\s+
    <<AnyWhitespace, Rep({"-", "*", "+"}, 1, 1), SomeWhitespace>>
BulletPrefixPattern ==                                      \* ^\s*[-\*\+]\s*
    <<AnyWhitespace, Rep({"-", "*", "+"}, 1, 1), AnyWhitespace>>

\* three backquotes; the backquote is written "BACKQUOTE"
Fence == <<"BACKQUOTE", "BACKQUOTE", "BACKQUOTE">>

\* header_count: the number of leading # characters
HeaderCount(line) ==
    CHOOSE n \in 0..Len(line) :
        /\ \A k \in 1..n : line[k] = "#"
        /\ n < Len(line) => line[n + 1] /= "#"

\* len(line) - len(line.lstrip())
LeadingSpaces(line) == Len(line) - Len(LStrip(line))

\* The level of an unordered list item
BulletLevel(line, last_header_level) ==
    IF LeadingSpaces(line) = 0 /\ last_header_level > 0
    THEN last_header_level + 1
    ELSE LeadingSpaces(line) \div 2 + 2

\* What one line is: its kind, level and content
Classify(line, last_header_level) ==
    IF StartsWith(line, <<"#">>)
    THEN [kind |-> "header", level |-> HeaderCount(line),
          content |-> Strip(From(line, HeaderCount(line)))]
    ELSE IF ReMatch(NumberedItemPattern, line).ok
    THEN [kind |-> "numbered", level |-> LeadingSpaces(line) \div 2 + 2,
          content |-> CleanMarkdownText(
                          ReSubAtStart(NumberedPrefixPattern, <<>>, line))]
    ELSE IF ReMatch(BulletItemPattern, line).ok
    THEN [kind |-> "bullet", level |-> BulletLevel(line, last_header_level),
          content |-> CleanMarkdownText(
                          ReSubAtStart(BulletPrefixPattern, <<>>, line))]
    ELSE [kind |-> "other", level |-> 0, content |-> <<>>]

\* while node_stack and node_stack[-1].level >= level: node_stack.pop()
RECURSIVE PopStackMutantKeepEqual(_, _, _)
PopStackMutantKeepEqual(node_stack, heap, level) ==
    IF node_stack /= <<>> /\ heap[node_stack[Len(node_stack)]].level > level
    THEN PopStackMutantKeepEqual(SubSeq(node_stack, 1, Len(node_stack) - 1),
                                 heap, level)
    ELSE node_stack

RECURSIVE PopStack(_, _, _)
PopStack(node_stack, heap, level) ==
    IF node_stack /= <<>> /\ heap[node_stack[Len(node_stack)]].level >= level
    THEN PopStack(SubSeq(node_stack, 1, Len(node_stack) - 1), heap, level)
    ELSE node_stack

\* The parser's locals before the loop.  heap holds the node dicts made so
\* far; nodes, node_stack and the children lists refer to them by index.
TreeStart ==
    [nodes |-> <<>>, node_stack |-> <<>>, last_header_level |-> 0,
     heap |-> <<>>]

\* The rest of an iteration of the loop over lines, for a line that is c
TreeLineClassified(st, c) ==
    LET lhl == IF c.kind = "header" THEN c.level ELSE st.last_header_level
    IN IF c.kind = "other" THEN st
       ELSE IF c.content = <<>> THEN [st EXCEPT !.last_header_level = lhl]
       ELSE
       LET id == Len(st.heap) + 1
           node == [content |-> c.content, level |-> c.level, children |-> <<>>]
           stack == PopStack(st.node_stack, st.heap, c.level)
           heap1 == Append(st.heap, node)
           heap2 == IF stack /= <<>>
                    THEN [heap1 EXCEPT ![stack[Len(stack)]].children =
                                             Append(@, id)]
                    ELSE heap1
       IN [nodes |-> IF stack /= <<>> THEN st.nodes ELSE Append(st.nodes, id),
           node_stack |-> Append(stack, id),
           last_header_level |-> IF c.kind = "numbered" THEN 0 ELSE lhl,
           heap |-> heap2]

\* One iteration of the loop over lines
TreeLine(st, raw) ==
    LET line == RStrip(raw) IN
    IF line = <<>> \/ StartsWith(line, Fence) THEN st
    ELSE TreeLineClassified(st, Classify(line, st.last_header_level))

\* The dict tree below node id
RECURSIVE NodeTree(_, _)
RECURSIVE NodeTrees(_, _)
NodeTree(heap, id) ==
    [content |-> heap[id].content, level |-> heap[id].level,
     children |-> NodeTrees(heap, heap[id].children)]
NodeTrees(heap, ids) ==
    IF ids = <<>> THEN <<>>
    ELSE <<NodeTree(heap, ids[1])>> \o NodeTrees(heap, Tail(ids))

MindMapName == <<"M", "i", "n", "d", " ", "M", "a", "p">>
OrganizationName ==
    <<"O", "r", "g", "a", "n", "i", "z", "a", "t", "i", "o", "n">>

DefaultRootName(t) == IF t = "orgchart" THEN OrganizationName ELSE MindMapName

\* The value returned after the loop
TreeResultMutantAlwaysWrap(st, t) ==
    [content |-> DefaultRootName(t), level |-> 1,
     children |-> NodeTrees(st.heap, st.nodes)]
TreeResult(st, t) ==
    IF st.nodes = <<>>
    THEN [content |-> DefaultRootName(t), level |-> 1, children |-> <<>>]
    ELSE IF Len(st.nodes) = 1 THEN NodeTree(st.heap, st.nodes[1])
    ELSE [content |-> DefaultRootName(t), level |-> 1,
          children |-> NodeTrees(st.heap, st.nodes)]

RECURSIVE FoldLines(_, _, _)
FoldLines(st, lines, k) ==
    IF k > Len(lines) THEN st
    ELSE FoldLines(TreeLine(st, lines[k]), lines, k + 1)

\* _parse_markdown_to_tree(markdown_text) as a whole
ParseMarkdownToTree(markdown_text, t) ==
    TreeResult(FoldLines(TreeStart, Split(Strip(markdown_text), "\n"), 1), t)

---------------------------------------------------------------------------
(* The fishbone parser: _parse_markdown_to_fishbone *)

ProblemDefault == <<"U95EE", "U9898", "U5206", "U6790">>
CategoryDefaultName == <<"U4E3B", "U8981", "U539F", "U56E0">>
CauseDefaultContent ==
    <<"U8BF7", "U5728", "M", "a", "r", "k", "d", "o", "w", "n", "U4E2D",
      "U4F7F", "U7528", "#", "#", " ", "U6807", "U9898", "U6765", "U5B9A",
      "U4E49", "U539F", "U56E0", "U5206", "U7C7B">>

H1Prefix == <<"#", " ">>
H2Prefix == <<"#", "#", " ">>
H3Prefix == <<"#", "#", "#", " ">>

\* if not line or line.startswith(three backquotes): continue
Skipped(line) == line = <<>> \/ StartsWith(line, Fence)

\* The locals before the loop.  current_category is the index in categories
\* of the dict the name refers to (the code appends it when it makes it);
\* 0 is None.
FishboneStart ==
    [problem |-> ProblemDefault, categories |-> <<>>, current_category |-> 0]

\* One iteration of the loop over lines
FishboneLine(st, raw) ==
    LET line == RStrip(raw)
        cur == st.current_category
    IN
    IF Skipped(line) THEN st
    ELSE IF StartsWith(line, H1Prefix)
    THEN [st EXCEPT !.problem = Strip(From(line, 2))]
    ELSE IF StartsWith(line, H2Prefix)
    THEN [st EXCEPT !.categories =
                        Append(@, [name |-> Strip(From(line, 3)),
                                   causes |-> <<>>]),
                    !.current_category = Len(st.categories) + 1]
    ELSE IF StartsWith(line, H3Prefix) /\ cur /= 0
    THEN [st EXCEPT !.categories[cur].causes =
                        Append(@, [content |->
                                       CleanMarkdownText(Strip(From(line, 4))),
                                   subcauses |-> <<>>])]
    ELSE IF ReMatch(BulletItemPattern, line).ok /\ cur /= 0
    THEN LET leading_spaces == LeadingSpaces(line)
             cause_text == CleanMarkdownText(
                               ReSubAtStart(BulletPrefixPattern, <<>>, line))
             causes == st.categories[cur].causes
         IN IF leading_spaces = 0
            THEN [st EXCEPT !.categories[cur].causes =
                                Append(@, [content |-> cause_text,
                                           subcauses |-> <<>>])]
            ELSE IF leading_spaces >= 2 /\ causes /= <<>>
            THEN [st EXCEPT !.categories[cur].causes[Len(causes)].subcauses =
                                Append(@, cause_text)]
            ELSE st
    ELSE st

\* The value returned after the loop
FishboneResultMutantNoDefault(st) ==
    [problem |-> st.problem, categories |-> st.categories]
FishboneResult(st) ==
    [problem |-> st.problem,
     categories |->
         IF st.categories = <<>>
         THEN <<[name |-> CategoryDefaultName,
                 causes |-> <<[content |-> CauseDefaultContent,
                               subcauses |-> <<>>]>>]>>
         ELSE st.categories]

RECURSIVE FishboneFold(_, _, _)
FishboneFold(st, lines, k) ==
    IF k > Len(lines) THEN st
    ELSE FishboneFold(FishboneLine(st, lines[k]), lines, k + 1)

ParseMarkdownToFishbone(markdown_text) ==
    FishboneResult(
        FishboneFold(FishboneStart, Split(Strip(markdown_text), "\n"), 1))

---------------------------------------------------------------------------
(* The circular parser: _parse_markdown_to_circular *)

CenterDefault == <<"U5706", "U5F62", "U56FE">>
CircularDefaultName == <<"U5206", "U7C7B", "1">>
CircularDefaultItem ==
    <<"U8BF7", "U5728", "M", "a", "r", "k", "d", "o", "w", "n", "U4E2D",
      "U4F7F", "U7528", "#", "#", " ", "U5206", "U7C7B", "U540D", "U79F0",
      "U6765", "U5B9A", "U4E49", "U5706", "U5F62", "U5206", "U7C7B">>

\* current_category is <<>> for None and <<dict>> for a dict, which joins
\* categories only at the next level-2 heading or after the loop.
CircularStart ==
    [center_title |-> CenterDefault, categories |-> <<>>,
     current_category |-> <<>>]

\* categories.append(current) if current is set
Flush(list, current) ==
    IF current /= <<>> THEN Append(list, current[1]) ELSE list

CircularLine(st, raw) ==
    LET line == RStrip(raw)
        cur == st.current_category
    IN
    IF Skipped(line) THEN st
    ELSE IF StartsWith(line, H1Prefix)
    THEN [st EXCEPT !.center_title = Strip(From(line, 2))]
    ELSE IF StartsWith(line, H2Prefix)
    THEN [st EXCEPT !.categories = Flush(@, cur),
                    !.current_category =
                        <<[name |-> Strip(From(line, 3)), items |-> <<>>,
                           subcategories |-> <<>>]>>]
    ELSE IF StartsWith(line, H3Prefix) /\ cur /= <<>>
    THEN [st EXCEPT !.current_category[1].subcategories =
                        Append(@, [name |->
                                       CleanMarkdownText(Strip(From(line, 4))),
                                   items |-> <<>>])]
    ELSE IF ReMatch(BulletItemPattern, line).ok /\ cur /= <<>>
    THEN LET item == CleanMarkdownText(
                         ReSubAtStart(BulletPrefixPattern, <<>>, line))
             subs == cur[1].subcategories
         IN IF subs /= <<>>
            THEN [st EXCEPT !.current_category[1].subcategories[Len(subs)].items =
                                Append(@, item)]
            ELSE [st EXCEPT !.current_category[1].items = Append(@, item)]
    ELSE st

CircularResult(st) ==
    LET categories == Flush(st.categories, st.current_category)
    IN [center |-> st.center_title,
        categories |->
            IF categories = <<>>
            THEN <<[name |-> CircularDefaultName,
                    items |-> <<CircularDefaultItem>>,
                    subcategories |-> <<>>]>>
            ELSE categories]

RECURSIVE CircularFold(_, _, _)
CircularFold(st, lines, k) ==
    IF k > Len(lines) THEN st
    ELSE CircularFold(CircularLine(st, lines[k]), lines, k + 1)

ParseMarkdownToCircular(markdown_text) ==
    CircularResult(
        CircularFold(CircularStart, Split(Strip(markdown_text), "\n"), 1))

---------------------------------------------------------------------------
(* The timeline parser: _extract_time_info, _parse_markdown_to_timeline *)

Year == Lit("U5E74")
Month == Lit("U6708")
Day == Lit("U65E5")
Ordinal == Lit("U7B2C")
Phase == <<Lit("U9636"), Lit("U6BB5")>>
Quarter == <<Lit("U5B63"), Lit("U5EA6")>>
Numerals == {"U4E00", "U4E8C", "U4E09", "U56DB", "U4E94", "U516D", "U4E03",
             "U516B", "U4E5D", "U5341"}
D4 == Rep(Digits, 4, 4)
D12 == Rep(Digits, 1, 2)

\* time_patterns, in the order the code tries them
TimePatterns ==
    << <<D4, Opt("U5E74"), D12, Opt("U6708"), RepLazy(Digits, 1, 2),
         Opt("U65E5")>>,
       <<D4, Lit("-"), D12, Lit("-"), D12>>,
       <<D4, Lit("/"), D12, Lit("/"), D12>>,
       <<D12, Month, D12, Day>>,
       <<Ordinal, Rep(Digits, 1, Unbounded)>> \o Phase,
       Phase \o <<Rep(Digits, 1, Unbounded)>>,
       <<D4, Year>>,
       <<Lit("Q"), Rep({"1", "2", "3", "4"}, 1, 1)>>,
       <<Ordinal, Rep(Numerals, 1, Unbounded)>> \o Quarter >>

EventNameDefault == <<"U4E8B", "U4EF6">>
TimeDefault == <<"U65F6", "U95F4", "U70B9">>

\* text.replace(sub, '') for a non-empty sub
RECURSIVE RemoveAll(_, _)
RemoveAll(s, sub) ==
    IF Len(s) < Len(sub) THEN s
    ELSE IF SubSeq(s, 1, Len(sub)) = sub
    THEN RemoveAll(SubSeq(s, Len(sub) + 1, Len(s)), sub)
    ELSE <<s[1]>> \o RemoveAll(Tail(s), sub)

Separators == Rep({"-", ":"} \cup WhitespaceChars, 1, Unbounded)  \* [-:\s]+

\* text.split(c, 1): <<text>> when c is not in text
SplitOnce(s, c) ==
    IF \E k \in 1..Len(s) : s[k] = c
    THEN LET k == CHOOSE j \in 1..Len(s) :
                      s[j] = c /\ \A h \in 1..(j - 1) : s[h] /= c
         IN <<SubSeq(s, 1, k - 1), SubSeq(s, k + 1, Len(s))>>
    ELSE <<s>>

\* _extract_time_info(text): <<time, name>>
ExtractTimeInfo(text) ==
    LET hits == {k \in 1..Len(TimePatterns) : ReSearch(TimePatterns[k], text).ok}
    IN
    IF hits /= {}
    THEN LET k == CHOOSE h \in hits : \A g \in hits : h <= g
             m == ReSearch(TimePatterns[k], text)
             time_part == SubSeq(text, m.start, m.ends[Len(m.ends)])
             r1 == Strip(RemoveAll(text, time_part))
             r2 == ReSubAtStart(<<Separators>>, <<>>, r1)
             r3 == ReSub(<<Separators, EndAnchor>>, <<>>, r2)
         IN <<time_part, IF r3 = <<>> THEN EventNameDefault ELSE r3>>
    ELSE LET by_colon == SplitOnce(text, ":")
             by_space == SplitOnce(text, " ")
         IN IF Len(by_colon) = 2
            THEN <<Strip(by_colon[1]), Strip(by_colon[2])>>
            ELSE IF Len(by_space) = 2
            THEN <<Strip(by_space[1]), Strip(by_space[2])>>
            ELSE <<TimeDefault, text>>

TimelineDefaultTitle == <<"U65F6", "U95F4", "U7EBF">>
EventDefaultTime == <<"U9636", "U6BB5", "1">>
EventDefaultName ==
    <<"U8BF7", "U5728", "M", "a", "r", "k", "d", "o", "w", "n", "U4E2D",
      "U4F7F", "U7528", "#", "#", " ", "U65F6", "U95F4", " ", "U4E8B",
      "U4EF6", "U540D", "U79F0", "U6765", "U5B9A", "U4E49", "U65F6",
      "U95F4", "U8282", "U70B9">>

\* current_event is <<>> for None and <<dict>> for a dict
TimelineStart ==
    [timeline_title |-> TimelineDefaultTitle, events |-> <<>>,
     current_event |-> <<>>]

\* current_event = {'time': ..., 'name': ..., 'details': [], 'milestones': []}
NewEvent(info) ==
    [time |-> info[1], name |-> info[2], details |-> <<>>, milestones |-> <<>>]

\* One iteration of the loop over lines
TimelineLine(st, raw) ==
    LET line == RStrip(raw)
        cur == st.current_event
    IN
    IF Skipped(line) THEN st
    ELSE IF StartsWith(line, H1Prefix)
    THEN [st EXCEPT !.timeline_title = Strip(From(line, 2))]
    ELSE IF StartsWith(line, H2Prefix)
    THEN [st EXCEPT !.events = Flush(@, cur),
                    !.current_event =
                        <<NewEvent(ExtractTimeInfo(Strip(From(line, 3))))>>]
    ELSE IF StartsWith(line, H3Prefix) /\ cur /= <<>>
    THEN [st EXCEPT !.current_event[1].milestones =
                        Append(@, CleanMarkdownTextTimeline(
                                      Strip(From(line, 4))))]
    ELSE IF ReMatch(BulletItemPattern, line).ok /\ cur /= <<>>
    THEN [st EXCEPT !.current_event[1].details =
                        Append(@, CleanMarkdownTextTimeline(
                                      ReSubAtStart(BulletPrefixPattern, <<>>,
                                                   line)))]
    ELSE st

TimelineResult(st) ==
    LET events == Flush(st.events, st.current_event)
    IN [title |-> st.timeline_title,
        events |->
            IF events = <<>>
            THEN <<[time |-> EventDefaultTime, name |-> EventDefaultName,
                    details |-> <<>>, milestones |-> <<>>]>>
            ELSE events]

RECURSIVE TimelineFold(_, _, _)
TimelineFold(st, lines, k) ==
    IF k > Len(lines) THEN st
    ELSE TimelineFold(TimelineLine(st, lines[k]), lines, k + 1)

ParseMarkdownToTimeline(markdown_text) ==
    TimelineResult(
        TimelineFold(TimelineStart, Split(Strip(markdown_text), "\n"), 1))

---------------------------------------------------------------------------
(* Style presets: style_config.py *)

\* The tools whose modules are in the source tree
ImplementedTools == {"vertical", "orgchart", "fishbone", "circular", "timeline"}

\* The two tools the provider imports from modules that are not in the source
\* tree; sections 4.7 and 4.8 of the specification describe them
InferredTools == {"center", "horizontal"}

\* MindMapProvider._get_tools()
Tools == ImplementedTools \cup InferredTools

\* Sections 4.7, 4.8: parsing, style application, font resolution and output
\* contract of the center and horizontal tools are those of the vertical tool
ToolKind(t) == IF t \in InferredTools THEN "vertical" ELSE t

\* StyleConfig(): the dataclass defaults
StyleConfig ==
    [node_shape |-> "rounded_rectangle", node_border_width |-> 4,
     node_padding |-> 12, node_shadow |-> TRUE, font_size_base |-> 26,
     font_size_scaling |-> [num |-> 4, den |-> 5],    \* the literal 0.8
     font_weight |-> "normal", color_scheme |-> "default",
     line_style |-> "curved"]

PRESET_STYLES ==
    [default  |-> StyleConfig,
     business |-> [StyleConfig EXCEPT !.color_scheme = "business",
                                      !.node_shape = "rectangle",
                                      !.line_style = "straight",
                                      !.font_weight = "bold"],
     creative |-> [StyleConfig EXCEPT !.color_scheme = "creative",
                                      !.node_shape = "circle",
                                      !.line_style = "bezier",
                                      !.node_shadow = TRUE],
     academic |-> [StyleConfig EXCEPT !.color_scheme = "academic",
                                      !.node_shape = "rounded_rectangle",
                                      !.line_style = "curved",
                                      !.font_size_base = 24],
     minimal  |-> [StyleConfig EXCEPT !.color_scheme = "monochrome",
                                      !.node_shape = "rectangle",
                                      !.line_style = "straight",
                                      !.node_border_width = 2,
                                      !.node_shadow = FALSE]]

\* The preset each _invoke names as the default of its two lookups
DefaultPresetMutantAlwaysDefault(t) == "default"
DefaultPreset(t) ==
    CASE t = "orgchart" -> "business"
      [] t = "circular" -> "creative"
      [] OTHER -> "default"

---------------------------------------------------------------------------
(* Parameter values.  A value is tagged with its Python type:              *)
(*   "absent"  the key is not in tool_parameters                           *)
(*   "str"     a string (v: its characters, or a preset name)              *)
(*   "bytes"   a bytes object (it has strip(), but split('\n') raises)      *)
(*   "none"    None, or any other hashable object without strip()          *)
(*   "list"    an unhashable object                                        *)

Absent == [t |-> "absent", v |-> <<>>]
None == [t |-> "none", v |-> <<>>]
UnhashableList == [t |-> "list", v |-> <<>>]
Str(s) == [t |-> "str", v |-> s]
Bytes(s) == [t |-> "bytes", v |-> s]

MarkdownTexts ==
    { <<>>, <<"\n", "\t", " ">>, <<"U3000">>, <<"U00A0", "U000B">>,
      <<"#", " ", "A">>, <<" ", "#", " ", "A", "\n", "-", " ", "b", "\n">> }

MarkdownValues ==
    {Absent, None, Bytes(<<" ", "U000B">>), Bytes(<<"U00A0">>)}
        \cup {Str(s) : s \in MarkdownTexts}

PresetValues ==
    {Absent, None, UnhashableList}
        \cup {Str(n) : n \in DOMAIN PRESET_STYLES \cup {"bogus"}}

ParamMaps == [markdown_text : MarkdownValues, style_preset : PresetValues]

\* The inputs of the fair specification: the texts and presets that decide
\* whether the invocation reaches its scoped block, and how it leaves it
ScopedParamMaps ==
    [markdown_text : {Absent, Bytes(<<"U00A0">>), Str(<<"U3000">>),
                      Str(<<"#", " ", "A">>)},
     style_preset : {Absent, UnhashableList, Str("bogus")}]

\* The inputs of the threaded specification: every thread renders the same
\* text, the first one with the tool's default preset, the others with
\* minimal (the default of no tool)
ThreadedParamMaps(i) ==
    [markdown_text : {Str(<<"#", " ", "A">>)},
     style_preset : IF i = 1 THEN {Absent} ELSE {Str("minimal")}]

\* dict.get(key, default)
Get(value, default) == IF value.t = "absent" THEN default ELSE value

\* PRESET_STYLES.get(style_preset, PRESET_STYLES[<the tool's default>])
PresetLookup(t, sp) ==
    IF sp.t = "str" /\ sp.v \in DOMAIN PRESET_STYLES
    THEN PRESET_STYLES[sp.v]
    ELSE PRESET_STYLES[DefaultPreset(t)]

---------------------------------------------------------------------------
(* Messages *)

TextMessage(what) == [kind |-> "text", what |-> what]
BlobMessage == [kind |-> "blob", what |-> "image/png"]

FailureTexts == {TextMessage("invalid_input"), TextMessage("render_failed"),
                 TextMessage("error")}
SuccessText == TextMessage("success")

---------------------------------------------------------------------------
(* The generator frame of one _invoke call *)

NoConfig == [color_scheme |-> "none"]

IdleFrame ==
    [pc |-> "idle",
     tool_parameters |-> [markdown_text |-> Absent, style_preset |-> Absent],
     markdown_text |-> Absent,
     style_preset |-> Absent,
     style_config |-> NoConfig,
     tree_size |-> 0,        \* text elements the parsed structure will need
     laid_out |-> 0,         \* nodes handled by the layout pass so far
     text_elements |-> 0,    \* len(text_elements)
     drawn |-> 0,            \* text elements handled by the compositing pass
     draw_errors |-> 0,      \* exceptions swallowed by _draw_text_with_pil
     success |-> FALSE,
     temp_dir |-> FALSE,     \* the TemporaryDirectory exists on disk
     files |-> {},           \* files in temp_dir
     dirs_created |-> 0,     \* history: TemporaryDirectory() calls
     raised |-> FALSE,       \* history: an exception was raised in the try body
     cleanup_failed |-> FALSE,  \* history: TemporaryDirectory.__exit__ raised
     escaped |-> FALSE,      \* history: an exception left the generator
     used |-> {},            \* history: configs of the renderers it has read
     msgs |-> <<>>]          \* the messages yielded so far

\* no parser call is looked at alone
NoLocals == [unset |-> TRUE]
NoParser ==
    [pc |-> "off", markdown_text |-> <<>>, lines |-> <<>>, next |-> 0,
     locals |-> NoLocals, result |-> NoLocals]

\* no other function is looked at alone
NoCall == [pc |-> "off", fn |-> "none", args |-> <<>>, result |-> <<>>]

RenderPcs == {"render", "figure", "layout", "draw", "remove_temp"}

Init ==
    /\ tool \in Tools
    /\ style_renderer = NoConfig
    /\ frame = [i \in Invocations |-> IdleFrame]
    /\ parser = NoParser
    /\ call = NoCall

Set(i, f) == frame' = [frame EXCEPT ![i] = f]

Yield(f, m, pc) == [f EXCEPT !.msgs = Append(@, m), !.pc = pc]

\* An exception raised in the try body outside the with block
Raise(f) == [f EXCEPT !.raised = TRUE, !.pc = "except"]

\* TemporaryDirectory.__exit__ when shutil.rmtree removes the directory
Cleanup(f) == [f EXCEPT !.temp_dir = FALSE, !.files = {}]

\* TemporaryDirectory.__exit__ when shutil.rmtree raises (a file or the
\* directory cannot be removed): the directory and the files in left stay on
\* disk and the exception goes on to the handler of _invoke
CleanupFails(f, left) ==
    Raise([f EXCEPT !.files = left, !.cleanup_failed = TRUE])

\* The frames the end of the with block can lead to
LeaveScope(f, pc) ==
    {[Cleanup(f) EXCEPT !.pc = pc]}
        \cup {CleanupFails(f, left) : left \in SUBSET f.files}

---------------------------------------------------------------------------
(* A parser call looked at alone: one step per iteration of its loop *)

TreeTools == {"vertical", "orgchart"}
StructureTools == {"fishbone", "circular", "timeline"}

\* the lines the documents given to the tree parser are made of
TreeLineChoices ==
    { <<"#", " ", "A">>, <<"#", "#", " ", "B">>, <<"#", "#">>,
      <<"-", " ", "C">>, <<" ", " ", "-", " ", "D">>,
      <<" ", " ", " ", " ", "-", " ", "F">>,
      <<"U0661", ".", "U3000", "E">>,     \* an Arabic-Indic 1, an ideographic space
      <<"x">> }

\* the lines the documents given to the other parsers are made of
StructureLineChoices ==
    { <<"#", " ", "T">>, <<"#", "#", " ", "B">>, <<"#", "#", "B">>,
      <<"#", "#", "#", " ", "M">>, <<"-", " ", "c">>,
      <<" ", " ", "-", " ", "s">>, <<"#", "#", " ">>,
      <<"U3000", "-", "U00A0", "d">> }

\* every document of at most MaxLines lines
Documents(choices) ==
    {Join(d, "\n") : d \in UNION {[1..n -> choices] : n \in 0..MaxLines}}

ParserAt(text) == [NoParser EXCEPT !.pc = "start", !.markdown_text = text]

ParseTreeInit ==
    /\ tool \in TreeTools
    /\ style_renderer = NoConfig
    /\ frame = [i \in Invocations |-> IdleFrame]
    /\ parser \in {ParserAt(text) : text \in Documents(TreeLineChoices)}
    /\ call = NoCall

ParseStructureInit ==
    /\ tool \in StructureTools
    /\ style_renderer = NoConfig
    /\ frame = [i \in Invocations |-> IdleFrame]
    /\ parser \in {ParserAt(text) : text \in Documents(StructureLineChoices)}
    /\ call = NoCall

\* lines = markdown_text.strip().split('\n') and the locals before the loop
Begin(start) ==
    /\ parser.pc = "start"
    /\ parser' = [parser EXCEPT
                      !.lines = Split(Strip(parser.markdown_text), "\n"),
                      !.next = 1, !.locals = start, !.pc = "loop"]
    /\ UNCHANGED <<tool, style_renderer, frame, call>>

\* for line in lines: one iteration
ProcessLine(locals) ==
    /\ parser.pc = "loop"
    /\ parser.next <= Len(parser.lines)
    /\ parser' = [parser EXCEPT !.locals = locals, !.next = @ + 1]
    /\ UNCHANGED <<tool, style_renderer, frame, call>>

\* the code after the loop, up to the return
Finish(result) ==
    /\ parser.pc = "loop"
    /\ parser.next > Len(parser.lines)
    /\ parser' = [parser EXCEPT !.result = result, !.pc = "returned"]
    /\ UNCHANGED <<tool, style_renderer, frame, call>>

CurrentLine == parser.lines[parser.next]

TreeBegin == tool \in TreeTools /\ Begin(TreeStart)
TreeProcessLine ==
    tool \in TreeTools /\ ProcessLine(TreeLine(parser.locals, CurrentLine))
TreeReturn == tool \in TreeTools /\ Finish(TreeResult(parser.locals, tool))

FishboneBegin == tool = "fishbone" /\ Begin(FishboneStart)
\* FishboneProcessLine with an indented bullet that finds no cause in the
\* current category attached to the last cause of the category before it
FishboneProcessLineMutantAttachEarlier ==
    /\ tool = "fishbone"
    /\ parser.pc = "loop" /\ parser.next <= Len(parser.lines)
    /\ LET st == parser.locals
           line == RStrip(CurrentLine)
           cur == st.current_category
       IN IF /\ cur > 1
             /\ ReMatch(BulletItemPattern, line).ok
             /\ LeadingSpaces(line) >= 2
             /\ st.categories[cur].causes = <<>>
             /\ st.categories[cur - 1].causes /= <<>>
          THEN ProcessLine(
                   [st EXCEPT
                        !.categories[cur - 1].causes[
                            Len(st.categories[cur - 1].causes)].subcauses =
                            Append(@, CleanMarkdownText(
                                          ReSubAtStart(BulletPrefixPattern,
                                                       <<>>, line)))])
          ELSE ProcessLine(FishboneLine(st, CurrentLine))
FishboneProcessLine ==
    tool = "fishbone" /\ ProcessLine(FishboneLine(parser.locals, CurrentLine))
FishboneReturn == tool = "fishbone" /\ Finish(FishboneResult(parser.locals))

CircularBegin == tool = "circular" /\ Begin(CircularStart)
CircularProcessLine ==
    tool = "circular" /\ ProcessLine(CircularLine(parser.locals, CurrentLine))
CircularReturn == tool = "circular" /\ Finish(CircularResult(parser.locals))

TimelineBegin == tool = "timeline" /\ Begin(TimelineStart)
TimelineProcessLine ==
    tool = "timeline" /\ ProcessLine(TimelineLine(parser.locals, CurrentLine))
TimelineReturn == tool = "timeline" /\ Finish(TimelineResult(parser.locals))

ParseTreeNext == TreeBegin \/ TreeProcessLine \/ TreeReturn

ParseTreeSpec == ParseTreeInit /\ [][ParseTreeNext]_vars

ParseStructureNext ==
    \/ FishboneBegin \/ FishboneProcessLine \/ FishboneReturn
    \/ CircularBegin \/ CircularProcessLine \/ CircularReturn
    \/ TimelineBegin \/ TimelineProcessLine \/ TimelineReturn

ParseStructureSpec == ParseStructureInit /\ [][ParseStructureNext]_vars

---------------------------------------------------------------------------
(* Properties of _invoke *)

Started(i) == frame[i].pc /= "idle"
Ended(i) == frame[i].pc = "done"
Last(s) == s[Len(s)]
HasBlob(s) == \E k \in 1..Len(s) : s[k].kind = "blob"

\* the tool under test is one whose module is in the source tree
Implemented == tool \in ImplementedTools

GivenMarkdown(i) == frame[i].tool_parameters.markdown_text
GivenPreset(i) == frame[i].tool_parameters.style_preset

WhitespaceOnly(i) ==
    /\ Started(i)
    /\ GivenMarkdown(i).t = "str"
    /\ \A k \in 1..Len(GivenMarkdown(i).v) :
          GivenMarkdown(i).v[k] \in WhitespaceChars

\* C1: when markdown_text is empty or only whitespace, the invocation emits
\* exactly one message, a failure text, and never a blob.
C1_WhitespaceGivesOneFailureText ==
    \A i \in Invocations :
        WhitespaceOnly(i) =>
            /\ ~HasBlob(frame[i].msgs)
            /\ Len(frame[i].msgs) <= 1
            /\ Ended(i) => /\ Len(frame[i].msgs) = 1
                           /\ frame[i].msgs[1] \in FailureTexts

C1_Witness ==
    \E i \in Invocations :
        /\ Ended(i)
        /\ tool \in ImplementedTools
        /\ GivenMarkdown(i) = Str(<<"U00A0", "U000B">>)
        /\ frame[i].msgs = <<TextMessage("invalid_input")>>

\* C2: the messages of an ended invocation of a tool of the source tree are
\* exactly <<blob, success text>> or exactly one failure text; while it runs
\* they are a prefix of one of these.
C2_BlobThenSuccessOrOneFailure ==
    Implemented => \A i \in Invocations :
        LET m == frame[i].msgs IN
        /\ m \in {<<>>, <<BlobMessage>>, <<BlobMessage, SuccessText>>}
                    \cup {<<t>> : t \in FailureTexts}
        /\ Ended(i) => m \in {<<BlobMessage, SuccessText>>}
                                \cup {<<t>> : t \in FailureTexts}

\* C3: no exception leaves _invoke; an invocation in whose body an exception
\* was raised, and one whose markdown_text is missing or not a string, ends
\* with a failure text as its last message.
C3_NoExceptionEscapes ==
    \A i \in Invocations :
        /\ ~frame[i].escaped
        /\ (Ended(i) /\ frame[i].raised) =>
              /\ frame[i].msgs /= <<>>
              /\ Last(frame[i].msgs) = TextMessage("error")
        /\ (Ended(i) /\ GivenMarkdown(i).t /= "str") =>
              /\ frame[i].msgs /= <<>>
              /\ Last(frame[i].msgs) \in FailureTexts

C3_Witness ==
    \E i \in Invocations :
        /\ Ended(i) /\ frame[i].raised
        /\ GivenMarkdown(i) = None
        /\ Last(frame[i].msgs) = TextMessage("error")

ScopedDirState ==
    \A i \in Invocations :
        /\ Ended(i) => ~frame[i].temp_dir /\ frame[i].files = {}
        /\ frame[i].pc \in {"except", "yield_error"} => ~frame[i].temp_dir
        /\ frame[i].pc = "yield_invalid" => frame[i].dirs_created = 0
        /\ frame[i].files /= {} => frame[i].temp_dir
        /\ frame[i].dirs_created <= 1

\* C4: a temporary directory that exists is eventually removed; an ended
\* invocation has no directory and no file left, the exception handler runs
\* after the removal, and the early return on empty input creates none (stated
\* for the tools of the source tree).  It fails when the removal at the end
\* of the scoped block raises: the invocation ends with the directory, and
\* the files that could not be deleted, still on disk.
C4_TempDirRemovedOnEveryPath ==
    /\ [](Implemented => ScopedDirState)
    /\ \A i \in Invocations : frame[i].temp_dir ~> ~frame[i].temp_dir

\* C5: an invocation of a tool of the source tree draws only with the style
\* renderer of its own preset.
C5_OwnRendererOnly ==
    Implemented =>
        \A i \in Invocations : frame[i].used \subseteq {frame[i].style_config}

\* The preset table and the per-tool fallback, as the specification lists them
ExpectedConfig(t, sp) ==
    IF sp.t = "str"
       /\ sp.v \in {"default", "business", "creative", "academic", "minimal"}
    THEN PRESET_STYLES[sp.v]
    ELSE CASE t \in {"vertical", "fishbone", "timeline"} -> PRESET_STYLES.default
           [] t = "orgchart" -> PRESET_STYLES.business
           [] t = "circular" -> PRESET_STYLES.creative

\* C6: for each of the five tools whose default the claim names, the style
\* configuration of an invocation, and of every renderer it draws with, is the
\* named preset, or the tool's own default preset when the name is unknown or
\* absent.
C6_PresetOrToolDefault ==
    \A i \in Invocations :
        (/\ tool \in ImplementedTools
         /\ GivenPreset(i).t /= "list"
         /\ frame[i].pc \notin {"idle", "start"}) =>
            /\ frame[i].style_config = ExpectedConfig(tool, GivenPreset(i))
            /\ frame[i].used \subseteq {ExpectedConfig(tool, GivenPreset(i))}

C6_Witness ==
    \E i \in Invocations :
        /\ tool = "orgchart"
        /\ GivenPreset(i) = Str("bogus")
        /\ Ended(i)
        /\ frame[i].used = {PRESET_STYLES.business}

---------------------------------------------------------------------------
(* Properties of the parsers *)

TreeReturned == parser.pc = "returned" /\ tool \in TreeTools
StructureReturned == parser.pc = "returned" /\ tool \in StructureTools

DefaultNode ==
    [content |-> DefaultRootName(tool), level |-> 1, children |-> <<>>]

\* C7: the generic tree parser returns a single default node with no
\* children when no line yielded a node, the one top-level node itself when
\* exactly one top-level node was produced, and otherwise a synthetic level-1
\* wrapper root whose children are exactly the top-level nodes in document
\* order (nodes are numbered in the order the lines made them).
C7_TreeParserResult ==
    TreeReturned =>
        LET heap == parser.locals.heap
            top == parser.locals.nodes
            result == parser.result
        IN /\ heap = <<>> => result = DefaultNode
           /\ heap /= <<>> => top /= <<>>
           /\ Len(top) = 1 => result = NodeTree(heap, top[1])
           /\ Len(top) > 1 =>
                  /\ result.content = DefaultRootName(tool)
                  /\ result.level = 1
                  /\ Len(result.children) = Len(top)
                  /\ \A k \in 1..Len(top) :
                         result.children[k] = NodeTree(heap, top[k])
                  /\ \A j, k \in 1..Len(top) : j < k => top[j] < top[k]

C7_Witness ==
    /\ TreeReturned
    /\ Len(parser.locals.nodes) = 2
    /\ parser.result.content = DefaultRootName(tool)
    /\ Len(parser.result.children) = 2

\* A level-2 heading line, as the three parsers take it: a line of the
\* stripped document that, without its trailing whitespace, starts with two
\* # characters and a space.
HasLevel2Heading(text) ==
    LET lines == Split(Strip(text), "\n")
    IN \E k \in 1..Len(lines) : StartsWith(RStrip(lines[k]), <<"#", "#", " ">>)

Entries(result) ==
    IF tool = "timeline" THEN result.events ELSE result.categories

Placeholder ==
    IF tool = "fishbone"
    THEN [name |-> CategoryDefaultName,
          causes |-> <<[content |-> CauseDefaultContent, subcauses |-> <<>>]>>]
    ELSE IF tool = "circular"
    THEN [name |-> CircularDefaultName, items |-> <<CircularDefaultItem>>,
          subcategories |-> <<>>]
    ELSE [time |-> EventDefaultTime, name |-> EventDefaultName,
          details |-> <<>>, milestones |-> <<>>]

HasPlaceholder(entries) == \E k \in 1..Len(entries) : entries[k] = Placeholder

\* C8: the fishbone, circular and timeline parsers never return an empty
\* structure: the result has at least one category or event, and the single
\* default placeholder entry is present exactly when the input contains no
\* level-2 heading line.  (They never fail: every operator of the parsers is
\* evaluated on every document, and the return step is reached from each.)
C8_NeverEmptyPlaceholderIffNoHeading ==
    StructureReturned =>
        LET entries == Entries(parser.result)
        IN /\ Len(entries) >= 1
           /\ HasPlaceholder(entries) <=> ~HasLevel2Heading(parser.markdown_text)
           /\ HasPlaceholder(entries) => Len(entries) = 1

C8_Witness ==
    /\ StructureReturned
    /\ Len(parser.lines) = 2
    /\ parser.lines[1] = <<"#", "#", "B">>
    /\ parser.locals /= NoLocals
    /\ Entries(parser.result) = <<Placeholder>>

InTreeLoop == parser.pc \in {"loop", "returned"} /\ tool \in TreeTools

\* the node stack has strictly increasing levels from bottom to top
StackIncreasing ==
    InTreeLoop =>
        LET heap == parser.locals.heap
            node_stack == parser.locals.node_stack
        IN \A k \in 1..(Len(node_stack) - 1) :
               heap[node_stack[k]].level < heap[node_stack[k + 1]].level

RECURSIVE LevelsIncrease(_)
LevelsIncrease(node) ==
    \A k \in 1..Len(node.children) :
        /\ node.level < node.children[k].level
        /\ LevelsIncrease(node.children[k])

\* in the returned tree every parsed parent is below each of its children
ReturnedLevelsIncrease ==
    TreeReturned =>
        IF Len(parser.locals.nodes) > 1
        THEN \A k \in 1..Len(parser.result.children) :
                 LevelsIncrease(parser.result.children[k])
        ELSE LevelsIncrease(parser.result)

\* A step that makes a node makes it the last child of the deepest stack
\* entry with a smaller level, or a top-level node when there is none, and
\* leaves every other node as it was.
NewNodePlaced ==
    (/\ InTreeLoop
     /\ parser'.pc = "loop"
     /\ Len(parser'.locals.heap) = Len(parser.locals.heap) + 1)
    =>
    LET old == parser.locals
        new == parser'.locals
        id == Len(new.heap)
        below == {k \in 1..Len(old.node_stack) :
                      old.heap[old.node_stack[k]].level < new.heap[id].level}
    IN IF below = {}
       THEN /\ new.nodes = Append(old.nodes, id)
            /\ \A j \in 1..Len(old.heap) : new.heap[j] = old.heap[j]
            /\ new.node_stack = <<id>>
       ELSE LET k == CHOOSE h \in below : \A g \in below : g <= h
                parent == old.node_stack[k]
            IN /\ new.nodes = old.nodes
               /\ new.heap[parent].children =
                      Append(old.heap[parent].children, id)
               /\ \A j \in 1..Len(old.heap) :
                      j /= parent => new.heap[j] = old.heap[j]
               /\ new.node_stack = Append(SubSeq(old.node_stack, 1, k), id)

\* C9: in the generic tree parser, after every processed line the node
\* stack has strictly increasing levels from bottom to top; each new node
\* becomes the last child of the deepest remaining stack entry whose level
\* is strictly less than its own, or a top-level node if there is none; and
\* in the returned tree every parsed parent (the synthetic wrapper excluded)
\* has a level strictly less than each of its children.
C9_StackIncreasingAndPlacement ==
    /\ [](StackIncreasing /\ ReturnedLevelsIncrease)
    /\ [][NewNodePlaced]_vars

\* the third node took the second node's place on the stack and became the
\* second child of the first
C9_Witness ==
    /\ TreeReturned
    /\ Len(parser.locals.heap) = 3
    /\ parser.locals.node_stack = <<1, 3>>
    /\ parser.locals.heap[1].children = <<2, 3>>
    /\ parser.result.children[2].children = <<>>

\* "# A", "## B", "- C", "  - D"
HeadingBulletNestedBullet ==
    Join(<< <<"#", " ", "A">>, <<"#", "#", " ", "B">>, <<"-", " ", "C">>,
            <<" ", " ", "-", " ", "D">> >>, "\n")

\* C10: for a level-1 heading A, a level-2 heading B, an unindented bullet C
\* and a bullet D indented by two spaces, the generic tree parser returns
\* root A with exactly one child B, and B has exactly one child, C, with
\* level(B) = 2 and level(C) = 3.
C10_HeadingAdjacentBulletOnlyChild ==
    (TreeReturned /\ parser.markdown_text = HeadingBulletNestedBullet) =>
        LET root == parser.result
        IN /\ root.content = <<"A">>
           /\ Len(root.children) = 1
           /\ root.children[1].content = <<"B">>
           /\ root.children[1].level = 2
           /\ Len(root.children[1].children) = 1
           /\ root.children[1].children[1].content = <<"C">>
           /\ root.children[1].children[1].level = 3

---------------------------------------------------------------------------
(* _clean_markdown_text called alone, and called again on its result *)

\* self._clean_markdown_text(text) of tool t
Clean(t, text) ==
    IF t = "timeline" THEN CleanMarkdownTextTimeline(text)
    ELSE CleanMarkdownText(text)

CleanAlphabet == {"*", "a", ":", " ", "U300A", "U3000"}

\* every text of at most n characters of the alphabet
Texts(alphabet, n) == UNION {[1..k -> alphabet] : k \in 0..n}

Labels == {<<"L">>, <<"B", "o", "l", "d">>}
Remainders == {<<"x">>, <<"r", "e", "s", "t">>}

Spaces(n) == [k \in 1..n |-> " "]

\* '**label**:', n spaces, rest
Labelled(label, n, rest) ==
    <<"*", "*">> \o label \o <<"*", "*", ":">> \o Spaces(n) \o rest

LabelledTexts ==
    {Labelled(l, n, r) : l \in Labels, n \in 0..MaxSpaces, r \in Remainders}

Called(fn, args) == [NoCall EXCEPT !.pc = "called", !.fn = fn, !.args = args]

Quiet ==
    /\ style_renderer = NoConfig
    /\ frame = [i \in Invocations |-> IdleFrame]
    /\ parser = NoParser

CleanInit ==
    /\ tool \in Tools
    /\ Quiet
    /\ call \in {Called("clean", <<text>>) :
                    text \in Texts(CleanAlphabet, MaxTextLen) \cup LabelledTexts}

\* cleaned = self._clean_markdown_text(text)
CleanCall ==
    /\ call.pc = "called" /\ call.fn = "clean"
    /\ call' = [call EXCEPT !.result = <<Clean(ToolKind(tool), call.args[1])>>,
                            !.pc = "returned"]
    /\ UNCHANGED <<tool, style_renderer, frame, parser>>

\* self._clean_markdown_text(cleaned)
CleanAgain ==
    /\ call.pc = "returned" /\ call.fn = "clean"
    /\ call' = [call EXCEPT !.result =
                                Append(@, Clean(ToolKind(tool), call.result[1])),
                            !.pc = "again"]
    /\ UNCHANGED <<tool, style_renderer, frame, parser>>

CleanNext == CleanCall \/ CleanAgain

CleanSpec == CleanInit /\ [][CleanNext]_vars

\* C11: text cleanup is idempotent: cleaning a cleaned text gives the
\* cleaned text, for the cleanup of every tool.
C11_CleanIdempotent ==
    (call.fn = "clean" /\ call.pc = "again") =>
        call.result[2] = call.result[1]

\* a text the first cleanup changed was cleaned a second time
C11_Witness ==
    /\ call.fn = "clean" /\ call.pc = "again"
    /\ call.args[1] = <<"*", "a", "*", " ">>
    /\ call.result = << <<"a">>, <<"a">> >>

\* C12: cleaning '**label**:' followed by any amount of whitespace
\* (including none) and a remainder yields 'label: ' followed by the
\* remainder: the colon is kept and is followed by exactly one space.
C12_BoldLabelOneSpace ==
    (call.fn = "clean" /\ call.pc = "returned" /\ tool /= "timeline") =>
        \A l \in Labels, n \in 0..MaxSpaces, r \in Remainders :
            call.args[1] = Labelled(l, n, r) =>
                call.result[1] = l \o <<":", " ">> \o r

---------------------------------------------------------------------------
(* Cleaned content in the parsed tree *)

\* no paired bold or italic markers and no book-title brackets
IsCleaned(text) ==
    /\ \A k \in 1..Len(text) : text[k] \notin {"U300A", "U300B"}
    /\ ~ReSearch(BoldPattern, text).ok
    /\ ~ReSearch(ItalicPattern, text).ok

RECURSIVE AllCleaned(_)
AllCleaned(node) ==
    /\ IsCleaned(node.content)
    /\ \A k \in 1..Len(node.children) : AllCleaned(node.children[k])

\* Lines with inline markup: '# *A*', '## *H*', '- *C*', '  - **D**',
\* '1. U300AEU300B'
MarkedLineChoices ==
    { <<"#", " ", "*", "A", "*">>, <<"#", "#", " ", "*", "H", "*">>,
      <<"-", " ", "*", "C", "*">>,
      <<" ", " ", "-", " ", "*", "*", "D", "*", "*">>,
      <<"1", ".", " ", "U300A", "E", "U300B">> }

ParseMarkedInit ==
    /\ tool \in TreeTools
    /\ style_renderer = NoConfig
    /\ frame = [i \in Invocations |-> IdleFrame]
    /\ parser \in {ParserAt(text) : text \in Documents(MarkedLineChoices)}
    /\ call = NoCall

ParseMarkedSpec == ParseMarkedInit /\ [][ParseTreeNext]_vars

\* C13: every content string of the tree the generic tree parser returns,
\* whether it came from a heading line or from a list item, is a cleaned
\* string: no paired bold or italic asterisk markers, no book-title brackets.
C13_EveryContentCleaned == TreeReturned => AllCleaned(parser.result)

---------------------------------------------------------------------------
(* Line wrapping: _smart_text_wrap (vertical tool) *)

\* the characters that end a word
WrapSeparators ==
    {" ", "\t", "UFF08", "UFF09", "(", ")", "[", "]", "{", "}", ",", ".", ";",
     ":", "U3002", "U3001", "UFF0C", "UFF1A", "UFF1B", "U201C", "U201D",
     "U300A", "U300B"}

\* The first loop: the words of text[k..], a separator that is no whitespace
\* being a word of its own
RECURSIVE WrapWords(_, _, _, _)
WrapWords(text, k, words, current_word) ==
    IF k > Len(text)
    THEN IF current_word /= <<>> THEN Append(words, current_word) ELSE words
    ELSE IF text[k] \in WrapSeparators
    THEN LET w1 == IF current_word /= <<>> THEN Append(words, current_word)
                   ELSE words
             w2 == IF text[k] \notin WhitespaceChars THEN Append(w1, <<text[k]>>)
                   ELSE w1
         IN WrapWords(text, k + 1, w2, <<>>)
    ELSE WrapWords(text, k + 1, words, Append(current_word, text[k]))

\* word[i:i + n] for i in range(0, len(word), n)
RECURSIVE Chunks(_, _)
Chunks(word, n) ==
    IF word = <<>> THEN <<>>
    ELSE IF Len(word) <= n THEN <<word>>
    ELSE <<SubSeq(word, 1, n)>> \o Chunks(SubSeq(word, n + 1, Len(word)), n)

\* lines.append(current_line.strip()) if current_line.strip()
KeepLine(lines, current_line) ==
    IF Strip(current_line) /= <<>> THEN Append(lines, Strip(current_line))
    ELSE lines

\* The second loop, from word k on
RECURSIVE WrapLines(_, _, _, _, _)
WrapLines(words, k, lines, current_line, max_chars_per_line) ==
    IF k > Len(words) THEN KeepLine(lines, current_line)
    ELSE IF Len(current_line) + Len(words[k]) <= max_chars_per_line
    THEN WrapLines(words, k + 1, lines, current_line \o words[k],
                   max_chars_per_line)
    ELSE LET saved == KeepLine(lines, current_line)
         IN IF Len(words[k]) > max_chars_per_line
            THEN WrapLines(words, k + 1,
                           saved \o Chunks(words[k], max_chars_per_line),
                           <<>>, max_chars_per_line)
            ELSE WrapLines(words, k + 1, saved, words[k], max_chars_per_line)

\* "\n".join of the first line and the other lines, each after two spaces
RECURSIVE Indented(_)
Indented(lines) ==
    IF lines = <<>> THEN <<>>
    ELSE <<"\n", " ", " ">> \o lines[1] \o Indented(Tail(lines))

\* _smart_text_wrap(text, max_chars_per_line)
SmartTextWrap(text, max_chars_per_line) ==
    IF text = <<>> \/ Len(text) <= max_chars_per_line THEN text
    ELSE LET stripped == Strip(text)
             words == WrapWords(stripped, 1, <<>>, <<>>)
             lines == WrapLines(words, 1, <<>>, <<>>, max_chars_per_line)
         IN IF Len(lines) <= 1 THEN stripped
            ELSE lines[1] \o Indented(Tail(lines))

WrapAlphabet == {"a", " ", ","}

WrapInit ==
    /\ tool = "vertical"
    /\ Quiet
    /\ call \in {Called("wrap", <<text, limit>>) :
                    text \in Texts(WrapAlphabet, MaxTextLen),
                    limit \in 1..MaxLimit}

\* wrapped = self._smart_text_wrap(text, max_chars_per_line)
WrapCall ==
    /\ call.pc = "called" /\ call.fn = "wrap"
    /\ call' = [call EXCEPT
                    !.result = SmartTextWrap(call.args[1], call.args[2]),
                    !.pc = "returned"]
    /\ UNCHANGED <<tool, style_renderer, frame, parser>>

WrapSpec == WrapInit /\ [][WrapCall]_vars

\* a line of the result without the two-space indent of a continuation line
Unindented(lines, k) == IF k > 1 THEN From(lines[k], 2) ELSE lines[k]

\* C14: for every text and every per-line limit L >= 1, each line of the
\* result of _smart_text_wrap, after removing the two-space continuation
\* indent of lines after the first, has at most L characters; a text of at
\* most L characters is returned unchanged.
C14_WrappedLinesWithinLimit ==
    (call.fn = "wrap" /\ call.pc = "returned") =>
        LET text == call.args[1]
            limit == call.args[2]
            lines == Split(call.result, "\n")
        IN /\ \A k \in 1..Len(lines) : Len(Unindented(lines, k)) <= limit
           /\ Len(text) <= limit => call.result = text

---------------------------------------------------------------------------
(* _extract_time_info called alone *)

\* time expressions: one or more for each pattern, written as the headings
\* of a timeline write them
TimeSamples ==
    { <<"2", "0", "2", "4", "U5E74", "1", "U6708", "1", "U65E5">>,
      <<"2", "0", "2", "4", "U5E74", "1", "U6708", "1", "5", "U65E5">>,
      <<"2", "0", "2", "4", "-", "0", "1", "-", "0", "2">>,
      <<"2", "0", "2", "4", "/", "1", "/", "2">>,
      <<"1", "U6708", "1", "U65E5">>,
      <<"U7B2C", "1", "U9636", "U6BB5">>,
      <<"U9636", "U6BB5", "1", "2">>,
      <<"2", "0", "2", "4", "U5E74">>,
      <<"UFF12", "UFF10", "UFF12", "UFF14", "U5E74">>,    \* full-width digits
      <<"Q", "1">>,
      <<"U7B2C", "U4E00", "U5B63", "U5EA6">>,
      <<"2", "0", "2", "4", "0", "1", "0", "2">> }

NameSamples == {<<>>, <<"x">>, <<"U542F", "U52A8">>}
SeparatorSamples ==
    {<<>>, <<" ">>, <<":", " ">>, <<" ", "-", " ">>, <<"U3000">>}

\* the heading texts given to _extract_time_info: the parser passes the
\* stripped, non-empty text after the level-2 marker
HeadingTexts ==
    LET dated == {t \o s \o n : t \in TimeSamples, s \in SeparatorSamples,
                                 n \in NameSamples}
                     \cup {n \o s \o t : t \in TimeSamples,
                                          s \in SeparatorSamples,
                                          n \in NameSamples}
        plain == Texts({"a", ":", " "}, MaxTextLen)
    IN {text \in dated \cup plain : text /= <<>> /\ Strip(text) = text}

ExtractInit ==
    /\ tool = "timeline"
    /\ Quiet
    /\ call \in {Called("extract", <<text>>) : text \in HeadingTexts}

\* time_info, event_name = self._extract_time_info(event_text)
ExtractCall ==
    /\ call.pc = "called" /\ call.fn = "extract"
    /\ call' = [call EXCEPT !.result = ExtractTimeInfo(call.args[1]),
                            !.pc = "returned"]
    /\ UNCHANGED <<tool, style_renderer, frame, parser>>

ExtractSpec == ExtractInit /\ [][ExtractCall]_vars

ExtractReturned == call.fn = "extract" /\ call.pc = "returned"

\* The patterns as the specification lists them: the full Chinese date is
\* four digits, one or two digits and one or two digits, each optionally
\* followed by its unit character.
ListedTimePatterns ==
    [TimePatterns EXCEPT
         ![1] = <<D4, Opt("U5E74"), D12, Opt("U6708"), D12, Opt("U65E5")>>]

SeparatorChars == {"-", ":"} \cup WhitespaceChars

\* text without its leading and trailing '-', ':' and whitespace
RECURSIVE Trimmed(_)
Trimmed(text) ==
    IF text = <<>> THEN text
    ELSE IF text[1] \in SeparatorChars THEN Trimmed(Tail(text))
    ELSE IF text[Len(text)] \in SeparatorChars
    THEN Trimmed(SubSeq(text, 1, Len(text) - 1))
    ELSE text

\* C15: when at least one time pattern matches the heading text, the time
\* token is the match of the earliest pattern in the fixed list order, and
\* the name is the text with that matched substring removed and leading and
\* trailing '-', ':' and whitespace trimmed, or the default event name when
\* nothing remains.
C15_TimeIsEarliestPatternMatch ==
    ExtractReturned =>
        LET text == call.args[1]
            hits == {k \in 1..Len(ListedTimePatterns) :
                         ReSearch(ListedTimePatterns[k], text).ok}
        IN hits /= {} =>
               LET k == CHOOSE h \in hits : \A g \in hits : h <= g
                   m == ReSearch(ListedTimePatterns[k], text)
                   time == SubSeq(text, m.start, m.ends[Len(m.ends)])
                   rest == Trimmed(RemoveAll(text, time))
               IN call.result =
                      <<time, IF rest = <<>> THEN EventNameDefault ELSE rest>>

\* C16: when no time pattern matches, the text is split at the first colon
\* if there is one, otherwise at the first space if there is one (time the
\* part before, name the part after, both trimmed), and otherwise the time
\* is the default time with the whole text as name; in every case the
\* returned time and name are both non-empty.
C16_FallbackSplitNonEmpty ==
    (/\ ExtractReturned
     /\ \A k \in 1..Len(TimePatterns) :
            ~ReSearch(TimePatterns[k], call.args[1]).ok)
    =>
    LET text == call.args[1]
        colon == SplitOnce(text, ":")
        space == SplitOnce(text, " ")
    IN /\ call.result =
              IF Len(colon) = 2 THEN <<Strip(colon[1]), Strip(colon[2])>>
              ELSE IF Len(space) = 2 THEN <<Strip(space[1]), Strip(space[2])>>
              ELSE <<TimeDefault, text>>
       /\ call.result[1] /= <<>>
       /\ call.result[2] /= <<>>

---------------------------------------------------------------------------
(* StyleRenderer.get_node_style called alone, for any depths in any order *)

Max(a, b) == IF a >= b THEN a ELSE b

RECURSIVE Pow(_, _)
Pow(b, e) == IF e = 0 THEN 1 ELSE b * Pow(b, e - 1)

\* Natural numbers of any size, for the 53-bit significands of Python's
\* floats and their exact products: the digits in base 2^12, lowest first,
\* without a zero as highest digit
LimbBits == 12
Limb == Pow(2, LimbBits)

BigNorm(a) ==
    LET used == {k \in 1..Len(a) : a[k] /= 0}
    IN IF used = {} THEN <<>>
       ELSE SubSeq(a, 1, CHOOSE k \in used : \A j \in used : j <= k)

RECURSIVE BigOfInt(_)
BigOfInt(n) == IF n = 0 THEN <<>> ELSE <<n % Limb>> \o BigOfInt(n \div Limb)

RECURSIVE IntOfBig(_)
IntOfBig(a) == IF a = <<>> THEN 0 ELSE a[1] + Limb * IntOfBig(Tail(a))

\* The number with columns[k] * Limb^(k-1) summed over k, every column
\* below 2^31: what a column holds above a digit is moved to the next
\* column until every column is a digit
RECURSIVE Carry(_)
Carry(columns) ==
    IF \A k \in 1..Len(columns) : columns[k] < Limb THEN BigNorm(columns)
    ELSE Carry([k \in 1..(Len(columns) + 1) |->
                   (IF k <= Len(columns) THEN columns[k] % Limb ELSE 0)
                       + (IF k > 1 THEN columns[k - 1] \div Limb ELSE 0)])

\* a + 1
BigSucc(a) ==
    IF a = <<>> THEN <<1>>
    ELSE Carry([k \in 1..Len(a) |-> IF k = 1 THEN a[k] + 1 ELSE a[k]])

\* the products a[i] * b[j] with i + j - 1 = k, for j up to n
RECURSIVE ColumnSum(_, _, _, _)
ColumnSum(a, b, k, n) ==
    IF n = 0 THEN 0
    ELSE (IF k - n + 1 \in 1..Len(a) THEN a[k - n + 1] * b[n] ELSE 0)
             + ColumnSum(a, b, k, n - 1)

\* a * b, for b of fewer than 2^7 digits
BigTimes(a, b) ==
    Carry([k \in 1..(Len(a) + Len(b)) |-> ColumnSum(a, b, k, Len(b))])

\* power * a^n
RECURSIVE BigPowerFrom(_, _, _)
BigPowerFrom(power, a, n) ==
    IF n = 0 \/ power = <<>> THEN power
    ELSE BigPowerFrom(BigTimes(power, a), a, n - 1)

BigPower(a, n) == BigPowerFrom(<<1>>, a, n)

\* a divided by d < 2^15: the quotient and the remainder
RECURSIVE BigDivSmall(_, _)
BigDivSmall(a, d) ==
    IF a = <<>> THEN [q |-> <<>>, r |-> 0]
    ELSE LET high == BigDivSmall(Tail(a), d)
             t == high.r * Limb + a[1]
         IN [q |-> <<t \div d>> \o high.q, r |-> t % d]

RECURSIVE BitsOf(_)
BitsOf(n) == IF n = 0 THEN 0 ELSE 1 + BitsOf(n \div 2)

\* int.bit_length()
BigBits(a) ==
    IF a = <<>> THEN 0 ELSE (Len(a) - 1) * LimbBits + BitsOf(a[Len(a)])

\* a >> k, and whether a one was among the k bits dropped
BigShiftRight(a, k) ==
    LET whole == k \div LimbBits
        low == Pow(2, k % LimbBits)
        rest == IF whole >= Len(a) THEN <<>> ELSE SubSeq(a, whole + 1, Len(a))
    IN [q |-> BigNorm([j \in 1..Len(rest) |->
                          rest[j] \div low
                              + (IF j < Len(rest)
                                 THEN (rest[j + 1] % low) * (Limb \div low)
                                 ELSE 0)]),
        lost |-> \/ \E j \in 1..Len(a) : j <= whole /\ a[j] /= 0
                 \/ rest /= <<>> /\ rest[1] % low /= 0]

\* A finite Python float x >= 0 is the record [m, e] with x = m * 2^e and
\* m below 2^53; the sign of a value is handled where the values are used.
\* sys.float_info.mant_dig: the bits of the significand of a float
MantDig == 53

\* sys.float_info.max_exp: every finite float is below 2^MaxExp
MaxExp == 1024

\* sys.float_info.min_exp: the floats below 2^(MinExp - 1) are subnormal,
\* whole multiples of 2^(MinExp - MantDig)
MinExp == 0 - 1021

Zero == [m |-> <<>>, e |-> 0]

\* math.inf: what an operation returns whose rounded result is not below
\* 2^MaxExp
Infinity == [m |-> <<1>>, e |-> MaxExp]

\* an OverflowError raised in place of a value
OverflowError == [raised |-> "OverflowError"]

\* a whole number returned
Returned(value) == [value |-> value]

Odd(a) == a /= <<>> /\ a[1] % 2 = 1

\* The exponent of the unit in the last place of the floats around
\* m * 2^e, m > 0: they have 53 bits, or are subnormal
UlpExponent(m, e) == Max(BigBits(m) + e - MantDig, MinExp - MantDig)

\* The float m * 2^e, m a whole number of units in the last place
Finite(m, e) ==
    IF m = <<>> THEN Zero
    ELSE IF BigBits(m) + e > MaxExp THEN Infinity
    ELSE [m |-> m, e |-> e]

\* The float nearest to (m + f) * 2^e, where 0 <= f < 1 and inexact says
\* f > 0 (an inexact m has more than 53 bits); a tie goes to the even
\* significand (IEEE 754 round-half-to-even, the rounding of every
\* operation on floats); a result below 2^(MinExp - 1) is rounded to a
\* subnormal or to zero, one of 2^MaxExp or more is Infinity
RoundToDouble(m, e, inexact) ==
    LET excess == UlpExponent(m, e) - e
    IN IF m = <<>> \/ excess <= 0 THEN Finite(m, e)
       ELSE LET above == BigShiftRight(m, excess - 1)
                half == Odd(above.q)
                kept == BigShiftRight(above.q, 1).q
                up == half /\ (above.lost \/ inexact \/ Odd(kept))
            IN Finite(IF up THEN BigSucc(kept) ELSE kept, e + excess)

\* A decimal literal such as 0.8, here num/den with num = 0 or
\* num/den >= 2^-15, and den < 2^15, is the float nearest to it
DoubleOfRatio(num, den) ==
    LET d == BigDivSmall(<<0, 0, 0, 0, 0, 0, 0>> \o BigOfInt(num), den)
    IN RoundToDouble(BigNorm(d.q), 0 - 7 * LimbBits, d.r /= 0)

\* float(n)
DoubleOfInt(n) == RoundToDouble(BigOfInt(n), 0, FALSE)

\* x * y for finite x and y
DoubleTimes(x, y) == RoundToDouble(BigTimes(x.m, y.m), x.e + y.e, FALSE)

\* The floats within one unit in the last place of m * 2^e: the value
\* itself when it is a float, else the float below it and the float above
\* it, where the float below the smallest subnormal is zero and the float
\* above the largest float is Infinity
NeighbourDoubles(m, e) ==
    LET excess == UlpExponent(m, e) - e
        cut == BigShiftRight(m, excess)
    IN IF m = <<>> \/ excess <= 0 THEN {Finite(m, e)}
       ELSE IF ~cut.lost THEN {Finite(cut.q, e + excess)}
       ELSE {Finite(cut.q, e + excess), Finite(BigSucc(cut.q), e + excess)}

\* x ** n for a finite x >= 0 and an int n >= 0: what float_pow can give.
\* It returns 1.0 for n = 0 and otherwise calls pow() of the C library,
\* which is exact when the power is a float and else returns one of the two
\* floats around it: which one depends on the library (it is not always the
\* nearer one).  A power too small for a subnormal comes back as 0.0; when
\* pow() overflows, float_pow raises OverflowError
DoublePow(x, n) ==
    {IF power = Infinity THEN OverflowError ELSE power :
        power \in NeighbourDoubles(BigPower(x.m, n), x.e * n)}

\* int(x): the whole part of a finite x
IntOfDouble(x) ==
    IF x.e >= 0 THEN IntOfBig(x.m) * Pow(2, x.e)
    ELSE IntOfBig(BigShiftRight(x.m, 0 - x.e).q)

\* int(font_size_base * font_size_scaling ** (depth_level - 1)), in floats,
\* for depth_level >= 1: what it can give, one outcome for each outcome of
\* the power.  The sign of the product is that of its exact value, the
\* operations round a value and its negative alike, and int() cuts towards
\* zero; int() of an infinite product raises OverflowError as an
\* overflowing power does
ScaledFontSize(config, depth_level) ==
    LET base == config.font_size_base
        scaling == config.font_size_scaling
        negative == (base < 0)
                       /= (scaling.num < 0 /\ (depth_level - 1) % 2 = 1)
        Truncated(power) ==
            IF power = OverflowError THEN OverflowError
            ELSE LET product ==
                         DoubleTimes(
                             DoubleOfInt(IF base < 0 THEN 0 - base ELSE base),
                             power)
                 IN IF product = Infinity THEN OverflowError
                    ELSE Returned(IF negative THEN 0 - IntOfDouble(product)
                                  ELSE IntOfDouble(product))
    IN {Truncated(power) :
           power \in DoublePow(
                         DoubleOfRatio(IF scaling.num < 0 THEN 0 - scaling.num
                                       ELSE scaling.num, scaling.den),
                         depth_level - 1)}

GetNodeStyleMutantNoFloor(config, depth_level) ==
    {IF size = OverflowError THEN OverflowError
     ELSE [font_size |-> size.value,
           padding |-> Max(config.node_padding - (depth_level - 1) * 2, 6),
           border_width |->
               Max(config.node_border_width - (depth_level - 1), 2),
           shape |-> config.node_shape,
           shadow |-> config.node_shadow] :
        size \in ScaledFontSize(config, depth_level)}

\* StyleRenderer(config).get_node_style(depth_level): what it can give,
\* the style for each value of the scaled font size, or the OverflowError
\* of line 177, which it does not catch
GetNodeStyle(config, depth_level) ==
    {IF size = OverflowError THEN OverflowError
     ELSE [font_size |-> Max(size.value, 12),
           padding |-> Max(config.node_padding - (depth_level - 1) * 2, 6),
           border_width |->
               Max(config.node_border_width - (depth_level - 1), 2),
           shape |-> config.node_shape,
           shadow |-> config.node_shadow] :
        size \in ScaledFontSize(config, depth_level)}

PresetNames == DOMAIN PRESET_STYLES

\* args is the preset of the renderer; result collects what it returned,
\* as pairs of a depth and the style returned for it
NodeStyleInit ==
    /\ tool \in Tools
    /\ Quiet
    /\ call \in {[Called("get_node_style", <<name>>) EXCEPT !.result = {}] :
                    name \in PresetNames}

\* style = self.style_renderer.get_node_style(depth_level)
NodeStyleCall ==
    /\ call.fn = "get_node_style"
    /\ \E depth_level \in 1..MaxDepth :
          \E style \in GetNodeStyle(PRESET_STYLES[call.args[1]], depth_level) :
              call' = [call EXCEPT
                          !.pc = IF style = OverflowError THEN "raised"
                                 ELSE "returned",
                          !.result = @ \cup
                              {[depth |-> depth_level, style |-> style]}]
    /\ UNCHANGED <<tool, style_renderer, frame, parser>>

NodeStyleSpec == NodeStyleInit /\ [][NodeStyleCall]_vars

\* q is floor(base * scaling^(depth - 1))
IsFloorOfScaled(q, config, depth) ==
    LET n == config.font_size_base * Pow(config.font_size_scaling.num, depth - 1)
        d == Pow(config.font_size_scaling.den, depth - 1)
    IN q * d <= n /\ n < (q + 1) * d

\* C17: for every named preset and every depth d >= 1, get_node_style(d)
\* returns a style, and its font size, which the code computes in floats
\* (whichever of the floats around the exact power the C library returns), is
\* max(floor(base * scaling^(d-1)), 12) of the exact product, is never below
\* 12, and is non-increasing in d; it is 26 at depth 1 and 16 at depth 3 for
\* base 26 and scaling 0.8.
C17_FontSizeFormulaFloorMonotone ==
    call.fn = "get_node_style" =>
        LET config == PRESET_STYLES[call.args[1]]
        IN /\ \A r \in call.result :
                  /\ r.style /= OverflowError
                  /\ r.style.font_size >= 12
                  /\ \E q \in 0..config.font_size_base :
                         /\ IsFloorOfScaled(q, config, r.depth)
                         /\ r.style.font_size = Max(q, 12)
                  /\ (config.font_size_base = 26 /\ r.depth = 1)
                         => r.style.font_size = 26
                  /\ (config.font_size_base = 26 /\ r.depth = 3)
                         => r.style.font_size = 16
           /\ \A r1, r2 \in call.result :
                  r1.depth <= r2.depth
                      => r1.style.font_size >= r2.style.font_size

\* the default preset at depths 1, 3 and 5: 26, 16 and the floor 12, where
\* the power 0.8 ** 2 is not a float and the library can return either of
\* the two floats around it
C17_Witness ==
    /\ call.fn = "get_node_style"
    /\ Cardinality(DoublePow(DoubleOfRatio(4, 5), 2)) = 2
    /\ call.args = <<"default">>
    /\ {<<r.depth, r.style.font_size>> : r \in call.result}
           = {<<1, 26>>, <<3, 16>>, <<5, 12>>}

---------------------------------------------------------------------------
(* The vertical tool's canvas size: _calculate_required_canvas_size.       *)
(* Widths of nodes and subtrees are in hundredths of a coordinate unit,    *)
(* canvas_width and x_limit in thousandths of an inch, canvas_height and   *)
(* y_limit in whole units as in the code.                                  *)

Min(a, b) == IF a <= b THEN a ELSE b

RECURSIVE MaxLen(_)
MaxLen(lines) ==
    IF lines = <<>> THEN 0 ELSE Max(Len(lines[1]), MaxLen(Tail(lines)))

RECURSIVE StripEach(_)
StripEach(lines) ==
    IF lines = <<>> THEN <<>>
    ELSE <<Strip(lines[1])>> \o StripEach(Tail(lines))

\* calculate_node_width(text): max(2.0, max_line_length * 0.15 + 1.0)
CalculateNodeWidth(text) ==
    IF text = <<>> THEN 200
    ELSE LET wrapped_text == SmartTextWrap(text, 15)
             lines == Split(wrapped_text, "\n")
             max_line_length == MaxLen(StripEach(lines))
         IN Max(200, max_line_length * 15 + 100)

\* _calculate_tree_depth(node)
RECURSIVE CalculateTreeDepth(_)
RECURSIVE MaxChildDepth(_)
CalculateTreeDepth(node) ==
    IF node.children = <<>> THEN 1 ELSE 1 + MaxChildDepth(node.children)
MaxChildDepth(children) ==
    IF Len(children) = 1 THEN CalculateTreeDepth(children[1])
    ELSE Max(CalculateTreeDepth(children[1]), MaxChildDepth(Tail(children)))

BaseSpacing(depth_level) ==
    IF depth_level = 1 THEN 700 ELSE IF depth_level = 2 THEN 450 ELSE 350

\* calculate_subtree_width(node, depth_level)
RECURSIVE CalculateSubtreeWidth(_, _)
RECURSIVE SumChildWidths(_, _)
CalculateSubtreeWidth(node, depth_level) ==
    IF node.children = <<>> THEN CalculateNodeWidth(node.content)
    ELSE LET num_children == Len(node.children)
             total_child_width == SumChildWidths(node.children, depth_level + 1)
             total_spacing == IF num_children > 1
                              THEN (num_children - 1) * BaseSpacing(depth_level)
                              ELSE 0
             subtree_width == total_child_width + total_spacing
         IN Max(subtree_width, CalculateNodeWidth(node.content))
SumChildWidths(children, depth_level) ==
    IF children = <<>> THEN 0
    ELSE CalculateSubtreeWidth(children[1], depth_level)
             + SumChildWidths(Tail(children), depth_level)

\* _calculate_required_canvas_size(tree_data)
CalculateRequiredCanvasSize(tree_data) ==
    LET tree_depth == CalculateTreeDepth(tree_data)
        required_width == CalculateSubtreeWidth(tree_data, 1)
    IN [canvas_width |-> Max(12000, Min(50000, required_width * 8 + 8000)),
        canvas_height |-> Max(10, Min(30, tree_depth * 4 + 6)),
        x_limit |-> required_width * 6 + 4000,
        y_limit |-> tree_depth * 4 + 3]

\* Content trees as the tree parser returns them
Leaf(content, level) ==
    [content |-> content, level |-> level, children |-> <<>>]

\* a node with n one-letter leaves below it
Branch(level, n) ==
    [content |-> <<"b">>, level |-> level,
     children |-> [k \in 1..n |-> Leaf(<<"c">>, level + 1)]]

\* a tree of depth n with one node on each level
RECURSIVE Chain(_, _)
Chain(level, n) ==
    [content |-> <<"x">>, level |-> level,
     children |-> IF n = 1 THEN <<>> ELSE <<Chain(level + 1, n - 1)>>]

\* two letters with n spaces between them, as '# a   b' is parsed
Gapped(n) == <<"a">> \o Spaces(n) \o <<"b">>

LeafContents ==
    {<<>>, <<"a">>, [k \in 1..16 |-> "a"], Gapped(1), Gapped(MaxGap)}

\* single leaves, chains of up to max_chain levels, and roots with up to
\* max_branches children of no, one or two leaves each
CanvasTrees(max_chain, max_branches) ==
    {Leaf(c, 1) : c \in LeafContents}
        \cup {Chain(1, n) : n \in 1..max_chain}
        \cup UNION {{[content |-> <<"r">>, level |-> 1,
                      children |-> [k \in 1..n |-> Branch(2, kinds[k])]] :
                         kinds \in [1..n -> 0..2]} : n \in 1..max_branches}

CanvasInit ==
    /\ tool = "vertical"
    /\ Quiet
    /\ call \in {Called("canvas", <<tree_data>>) : tree_data \in
                        CanvasTrees(MaxChain, MaxBranches)}

\* canvas_width, canvas_height, x_limit, y_limit =
\*     self._calculate_required_canvas_size(tree_data)
CanvasCall ==
    /\ call.pc = "called" /\ call.fn = "canvas"
    /\ call' = [call EXCEPT
                    !.result = CalculateRequiredCanvasSize(call.args[1]),
                    !.pc = "returned"]
    /\ UNCHANGED <<tool, style_renderer, frame, parser>>

CanvasSpec == CanvasInit /\ [][CanvasCall]_vars

CanvasReturned == call.fn = "canvas" /\ call.pc = "returned"

\* C18: for every content tree the canvas width lies in [12, 50] and the
\* canvas height in [10, 30]; the width is exactly 50 whenever
\* required_width * 0.8 + 8 exceeds 50, it is exactly 12 for every
\* single-leaf tree, and the height is clamp(10, 30, depth * 4 + 6).
C18_CanvasClamps ==
    CanvasReturned =>
        LET tree_data == call.args[1]
            size == call.result
            required_width == CalculateSubtreeWidth(tree_data, 1)
            depth == CalculateTreeDepth(tree_data)
        IN /\ size.canvas_width >= 12000 /\ size.canvas_width <= 50000
           /\ size.canvas_height >= 10 /\ size.canvas_height <= 30
           /\ required_width * 8 + 8000 > 50000 => size.canvas_width = 50000
           /\ tree_data.children = <<>> => size.canvas_width = 12000
           /\ size.canvas_height =
                  (IF depth * 4 + 6 < 10 THEN 10
                   ELSE IF depth * 4 + 6 > 30 THEN 30 ELSE depth * 4 + 6)

---------------------------------------------------------------------------
(* The recommended page configuration: get_recommended_page_config *)

PAGE_CONFIGS ==
    [A4_portrait |-> [page_size |-> "A4", orientation |-> "portrait"],
     A4_landscape |-> [page_size |-> "A4", orientation |-> "landscape"],
     A3_portrait |-> [page_size |-> "A3", orientation |-> "portrait"],
     A3_landscape |-> [page_size |-> "A3", orientation |-> "landscape"],
     Letter_portrait |-> [page_size |-> "Letter", orientation |-> "portrait"],
     Letter_landscape |-> [page_size |-> "Letter", orientation |-> "landscape"]]

RecommendationsMutantTimelineMissing ==
    [center |-> PAGE_CONFIGS.A4_portrait,
     horizontal |-> PAGE_CONFIGS.A4_landscape,
     vertical |-> PAGE_CONFIGS.A4_portrait,
     fishbone |-> PAGE_CONFIGS.A3_landscape,
     orgchart |-> PAGE_CONFIGS.A3_portrait,
     circular |-> PAGE_CONFIGS.A4_portrait]

Recommendations ==
    [center |-> PAGE_CONFIGS.A4_portrait,
     horizontal |-> PAGE_CONFIGS.A4_landscape,
     vertical |-> PAGE_CONFIGS.A4_portrait,
     fishbone |-> PAGE_CONFIGS.A3_landscape,
     orgchart |-> PAGE_CONFIGS.A3_portrait,
     timeline |-> PAGE_CONFIGS.A3_landscape,
     circular |-> PAGE_CONFIGS.A4_portrait]

\* recommendations.get(layout_type, PAGE_CONFIGS['A4_landscape'])
GetRecommendedPageConfig(layout_type) ==
    IF layout_type \in DOMAIN Recommendations THEN Recommendations[layout_type]
    ELSE PAGE_CONFIGS.A4_landscape

LayoutNames ==
    {"center", "horizontal", "vertical", "fishbone", "orgchart", "timeline",
     "circular"}
UnknownLayoutNames == {"", "Fishbone", "tree"}

\* result collects what the function returned, as pairs of a layout name
\* and the configuration returned for it
PageConfigInit ==
    /\ tool \in Tools
    /\ Quiet
    /\ call = [Called("get_recommended_page_config", <<>>) EXCEPT !.result = {}]

\* config = get_recommended_page_config(layout_type)
PageConfigCall ==
    /\ call.fn = "get_recommended_page_config"
    /\ \E layout_type \in LayoutNames \cup UnknownLayoutNames :
          call' = [call EXCEPT
                      !.pc = "returned",
                      !.result = @ \cup
                          {[layout_type |-> layout_type,
                            config |-> GetRecommendedPageConfig(layout_type)]}]
    /\ UNCHANGED <<tool, style_renderer, frame, parser>>

PageConfigSpec == PageConfigInit /\ [][PageConfigCall]_vars

PageConfigResults ==
    IF call.fn = "get_recommended_page_config" THEN call.result ELSE {}

Returns(r, page_size, orientation) ==
    r.config = [page_size |-> page_size, orientation |-> orientation]

\* what holds of every layout but the timeline
OtherLayouts(r) ==
    /\ r.layout_type = "fishbone" => Returns(r, "A3", "landscape")
    /\ r.layout_type = "orgchart" => Returns(r, "A3", "portrait")
    /\ r.layout_type \in {"center", "vertical", "circular"}
           => Returns(r, "A4", "portrait")
    /\ r.layout_type = "horizontal" => Returns(r, "A4", "landscape")
    /\ r.layout_type \notin LayoutNames => Returns(r, "A4", "landscape")

\* C19: get_recommended_page_config returns A3 landscape for fishbone, A3
\* portrait for the org chart, A4 portrait for center, vertical and
\* circular, A4 landscape for horizontal and timeline, and A4 landscape for
\* every unknown layout name.
C19_RecommendedPageConfig ==
    \A r \in PageConfigResults :
        /\ OtherLayouts(r)
        /\ r.layout_type = "timeline" => Returns(r, "A4", "landscape")

\* C19, amended: as above, but the timeline layout gets A3 landscape.
C19_RecommendedPageConfigAmended ==
    \A r \in PageConfigResults :
        /\ OtherLayouts(r)
        /\ r.layout_type = "timeline" => Returns(r, "A3", "landscape")

\* the function has been asked for the timeline, the fishbone and an
\* unknown layout
C19_Witness ==
    /\ {r.layout_type : r \in PageConfigResults}
           = {"timeline", "fishbone", "tree"}
    /\ \E r \in PageConfigResults :
           r.layout_type = "timeline" /\ Returns(r, "A3", "landscape")

---------------------------------------------------------------------------
(* PDFRenderer.svg_to_png: the rasterisation strategies, one step each *)

\* What trying a library does in the environment of the call: "ok" when the
\* import and the conversion succeed, "import_error" when the import raises
\* ImportError, "error" when anything in the try block raises another
\* exception.  The last resort imports PIL and returns False
\* ("unimplemented"), or fails to import it.
LibraryOutcomes == {"ok", "import_error", "error"}
LastResortOutcomes == {"unimplemented", "import_error"}

Strategies == <<"cairosvg", "svglib", "wand", "basic">>

Environments ==
    [cairosvg : LibraryOutcomes, svglib : LibraryOutcomes,
     wand : LibraryOutcomes, basic : LastResortOutcomes]

NotReturned == "none"

SvgToPngInit ==
    /\ tool \in Tools
    /\ Quiet
    /\ call \in {[pc |-> "cairosvg", fn |-> "svg_to_png", args |-> <<env>>,
                   result |-> [returned |-> NotReturned, tried |-> <<>>,
                               raised |-> FALSE]] : env \in Environments}

ReturnValue(c, strategy, value) ==
    [c EXCEPT !.pc = "returned",
              !.result = [returned |-> value,
                          tried |-> Append(c.result.tried, strategy),
                          raised |-> FALSE]]

FallThrough(c, strategy, next) ==
    [c EXCEPT !.pc = next, !.result.tried = Append(@, strategy)]

\* One of the first three try blocks: return True after the conversion,
\* pass on ImportError, and any other exception reaches the outer handler,
\* which returns False
TryLibrary(c, strategy, next) ==
    LET outcome == c.args[1][strategy]
    IN IF outcome = "ok" THEN ReturnValue(c, strategy, TRUE)
       ELSE IF outcome = "import_error" THEN FallThrough(c, strategy, next)
       ELSE ReturnValue(c, strategy, FALSE)

\* import cairosvg; cairosvg.svg2png(...)
TryCairosvg ==
    /\ call.fn = "svg_to_png" /\ call.pc = "cairosvg"
    /\ call' = TryLibrary(call, "cairosvg", "svglib")
    /\ UNCHANGED <<tool, style_renderer, frame, parser>>

\* from svglib.svglib import renderSVG; renderPM.drawToFile(...)
TrySvglib ==
    /\ call.fn = "svg_to_png" /\ call.pc = "svglib"
    /\ call' = TryLibrary(call, "svglib", "wand")
    /\ UNCHANGED <<tool, style_renderer, frame, parser>>

\* from wand.image import Image; img.save(...)
TryWand ==
    /\ call.fn = "svg_to_png" /\ call.pc = "wand"
    /\ call' = TryLibrary(call, "wand", "basic")
    /\ UNCHANGED <<tool, style_renderer, frame, parser>>

\* from PIL import Image; return False, and except Exception: return False
TryBasic ==
    /\ call.fn = "svg_to_png" /\ call.pc = "basic"
    /\ call' = ReturnValue(call, "basic", FALSE)
    /\ UNCHANGED <<tool, style_renderer, frame, parser>>

SvgToPngNext == TryCairosvg \/ TrySvglib \/ TryWand \/ TryBasic

SvgToPngSpec == SvgToPngInit /\ [][SvgToPngNext]_vars

SvgToPngReturned == call.fn = "svg_to_png" /\ call.pc = "returned"

Succeeded(env, strategy) == env[strategy] = "ok"

\* C20: svg_to_png tries the strategies in the fixed order and moves on to
\* the next strategy whenever the current one does not succeed; it returns
\* True exactly when some strategy it tried succeeded, and returns False
\* without raising when none did.
C20_StrategiesFallThrough ==
    SvgToPngReturned =>
        LET env == call.args[1]
            tried == call.result.tried
        IN /\ tried = SubSeq(Strategies, 1, Len(tried))
           /\ \A k \in 1..Len(tried) :
                  (~Succeeded(env, tried[k]) /\ k < Len(Strategies))
                      => k < Len(tried)
           /\ call.result.returned
                  = (\E k \in 1..Len(tried) : Succeeded(env, tried[k]))
           /\ ~call.result.raised

---------------------------------------------------------------------------
(* PDFRenderer.png_to_pdf: the imports, the conversion, and the install    *)
(* and retry when an import fails.  depth counts the recursive calls of    *)
(* png_to_pdf below the first one, installs the pip subprocesses run, and  *)
(* trace records what happened.  Every frame returns the value of the call *)
(* it made, so the innermost return is the result of the whole call.       *)

PngToPdfStart ==
    [pc |-> "import", fn |-> "png_to_pdf", args |-> <<>>,
     result |-> [returned |-> NotReturned, depth |-> 0, installs |-> 0,
                 trace |-> <<>>]]

PngToPdfInit ==
    /\ tool \in Tools
    /\ Quiet
    /\ call = PngToPdfStart

PngToPdfAt(pc) == call.fn = "png_to_pdf" /\ call.pc = pc

Traced(c, pc, event) ==
    [c EXCEPT !.pc = pc, !.result.trace = Append(@, event)]

PngToPdfReturn(c, event, value) ==
    [Traced(c, "returned", event) EXCEPT !.result.returned = value]

\* from reportlab... import ...; from PIL import Image: every import
\* succeeds, or one raises ImportError and the first handler runs, or one
\* raises another exception (a module that fails while it loads) and the
\* second handler returns False
ImportLibraries ==
    /\ PngToPdfAt("import")
    /\ \/ call' = Traced(call, "convert", "imported")
       \/ call' = Traced(call, "install", "import_error")
       \/ call' = PngToPdfReturn(call, "error", FALSE)
    /\ UNCHANGED <<tool, style_renderer, frame, parser>>

\* the body after the imports: return True; an ImportError raised by a
\* call of the body (the handler guards the whole try block) starts the
\* install as a failed import does; any other exception gives False
DrawAndSave ==
    /\ PngToPdfAt("convert")
    /\ \/ call' = PngToPdfReturn(call, "saved", TRUE)
       \/ call' = Traced(call, "install", "import_error")
       \/ call' = PngToPdfReturn(call, "error", FALSE)
    /\ UNCHANGED <<tool, style_renderer, frame, parser>>

\* subprocess.check_call([... "pip", "install", "reportlab"]) and then
\* return self.png_to_pdf(...): a failed install returns False; after an
\* install that reported success the method calls itself, and the call that
\* would exceed the interpreter's recursion limit raises RecursionError,
\* which the handler around the install turns into False
InstallAndRetry ==
    /\ PngToPdfAt("install")
    /\ LET installed == [call EXCEPT !.result.installs = @ + 1]
       IN \/ call' = PngToPdfReturn(installed, "install_failed", FALSE)
          \/ /\ call.result.depth + 1 < RecursionLimit
             /\ call' = [Traced(installed, "import", "retry")
                            EXCEPT !.result.depth = @ + 1]
          \/ /\ call.result.depth + 1 >= RecursionLimit
             /\ call' = PngToPdfReturn(installed, "recursion_error", FALSE)
    /\ UNCHANGED <<tool, style_renderer, frame, parser>>

PngToPdfNext == ImportLibraries \/ DrawAndSave \/ InstallAndRetry

PngToPdfSpec == PngToPdfInit /\ [][PngToPdfNext]_vars

\* C30: png_to_pdf makes at most one install attempt followed by at most one
\* retry of the conversion, also when the library is still not importable
\* after an install attempt that reported success (and it always returns a
\* boolean).
C30_AtMostOneInstallAndRetry ==
    call.fn = "png_to_pdf" =>
        /\ call.result.installs <= 1
        /\ call.result.depth <= 1
        /\ call.pc = "returned" => call.result.returned \in BOOLEAN

---------------------------------------------------------------------------
(* PDFRenderer.svg_to_pdf: the intermediate raster file *)

NextStrategy(strategy) ==
    IF strategy = "cairosvg" THEN "svglib"
    ELSE IF strategy = "svglib" THEN "wand" ELSE "basic"

\* the value svg_to_png returns, from the position c.pc on
RECURSIVE SvgToPngFrom(_)
SvgToPngFrom(c) ==
    IF c.pc = "returned" THEN c.result.returned
    ELSE IF c.pc = "basic" THEN FALSE
    ELSE SvgToPngFrom(TryLibrary(c, c.pc, NextStrategy(c.pc)))

\* self.svg_to_png(svg_path, temp_png.name) in the environment env
SvgToPng(env) ==
    SvgToPngFrom([pc |-> "cairosvg", fn |-> "svg_to_png", args |-> <<env>>,
                  result |-> [returned |-> NotReturned, tried |-> <<>>,
                              raised |-> FALSE]])

\* args: the environment of the rasterisation; result.file: the state of the
\* file named temp_png.name
SvgToPdfInit ==
    /\ tool \in Tools
    /\ Quiet
    /\ call \in {[pc |-> "create", fn |-> "svg_to_pdf", args |-> <<env>>,
                   result |-> [returned |-> NotReturned, file |-> "none",
                               rasterised |-> "not run",
                               converted |-> "not run",
                               unlink_raised |-> FALSE, raised |-> FALSE]] :
                     env \in Environments}

SvgToPdfAt(pc) == call.fn = "svg_to_pdf" /\ call.pc = pc

\* os.unlink(temp_png.name): the file is removed, or the call raises OSError
\* and the file stays
Unlink(file) ==
    {[file |-> "removed", raised |-> FALSE], [file |-> file, raised |-> TRUE]}

\* The return after os.unlink: the value given when the file was removed;
\* when os.unlink raised, the handler of svg_to_pdf returns False
ReturnAfterUnlink(c, unlinked, value) ==
    [c EXCEPT !.pc = "returned",
              !.result.file = unlinked.file,
              !.result.unlink_raised = unlinked.raised,
              !.result.returned = IF unlinked.raised THEN FALSE ELSE value]

\* tempfile.NamedTemporaryFile(suffix='.png', delete=False); close(): the
\* file is created, or the creation raises and the handler returns False
CreateTempPng ==
    /\ SvgToPdfAt("create")
    /\ \/ call' = [call EXCEPT !.pc = "rasterise", !.result.file = "exists"]
       \/ call' = [call EXCEPT !.pc = "returned", !.result.returned = FALSE]
    /\ UNCHANGED <<tool, style_renderer, frame, parser>>

\* if self.svg_to_png(svg_path, temp_png.name): ... else: unlink, return False
Rasterise ==
    /\ SvgToPdfAt("rasterise")
    /\ LET ok == SvgToPng(call.args[1])
       IN IF ok
          THEN call' = [call EXCEPT !.pc = "convert",
                                    !.result.rasterised = "succeeded"]
          ELSE \E unlinked \in Unlink(call.result.file) :
                  call' = ReturnAfterUnlink(
                              [call EXCEPT !.result.rasterised = "failed"],
                              unlinked, FALSE)
    /\ UNCHANGED <<tool, style_renderer, frame, parser>>

\* result = self.png_to_pdf(temp_png.name, output_path, title);
\* os.unlink(temp_png.name); return result
ConvertAndUnlink ==
    /\ SvgToPdfAt("convert")
    /\ \E result \in BOOLEAN, unlinked \in Unlink(call.result.file) :
          call' = ReturnAfterUnlink(
                      [call EXCEPT !.result.converted =
                                       IF result THEN "succeeded" ELSE "failed"],
                      unlinked, result)
    /\ UNCHANGED <<tool, style_renderer, frame, parser>>

SvgToPdfNext == CreateTempPng \/ Rasterise \/ ConvertAndUnlink

SvgToPdfSpec == SvgToPdfInit /\ [][SvgToPdfNext]_vars

SvgToPdfReturned == SvgToPdfAt("returned")

\* C21: after svg_to_pdf returns, the intermediate raster file it created no
\* longer exists, whether the rasterisation failed, the rasterisation
\* succeeded and the document conversion failed, or both succeeded; and
\* svg_to_pdf returns a boolean without raising in all three cases.  It fails
\* when os.unlink raises: the handler of svg_to_pdf returns False and the
\* file stays.
C21_TempPngRemoved ==
    SvgToPdfReturned =>
        /\ call.result.file /= "exists"
        /\ call.result.returned \in BOOLEAN
        /\ ~call.result.raised

---------------------------------------------------------------------------
(* Failures of the text-compositing pass *)

\* C22: any failure during the text-compositing pass of a render (an
\* exception while compositing a node label) makes _generate_png_mindmap
\* return the not-successful result, so that the invocation emits the generic
\* failure text and no blob (stated for the tools of the source tree).
C22_DrawFailureFailsRender ==
    Implemented => \A i \in Invocations :
        frame[i].draw_errors > 0 =>
            /\ ~frame[i].success
            /\ ~HasBlob(frame[i].msgs)
            /\ Ended(i) => frame[i].msgs = <<TextMessage("render_failed")>>

---------------------------------------------------------------------------
(* The vertical layout: layout_vertical_tree, its horizontal part.         *)
(* Lengths are whole numbers of a unit fine enough that every division the *)
(* layout makes on the trees below is exact: a tenth of a coordinate unit  *)
(* divided into Subdivisions parts.                                        *)

RECURSIVE Gcd(_, _)
Gcd(a, b) == IF b = 0 THEN a ELSE Gcd(b, a % b)

RECURSIVE LcmUpTo(_)
LcmUpTo(n) ==
    IF n <= 1 THEN 1 ELSE (LcmUpTo(n - 1) * n) \div Gcd(LcmUpTo(n - 1), n)

Subdivisions == 2 * Pow(LcmUpTo(MaxFanout), MaxLayoutDepth - 1)

\* A content tree: the nodes of level k have fanouts[k] children each; with
\* expand[k] = 0 every one of them has children of its own, otherwise only
\* child number expand[k] has
RECURSIVE ShapedTree(_, _, _)
ShapedTree(fanouts, expand, level) ==
    [content |-> <<"n">>, level |-> level,
     children |->
        IF level > Len(fanouts) THEN <<>>
        ELSE [k \in 1..fanouts[level] |->
                 IF expand[level] \in {0, k}
                 THEN ShapedTree(fanouts, expand, level + 1)
                 ELSE Leaf(<<"n">>, level + 1)]]

\* the ways to expand the levels of a tree with these fanouts
Expansions(fanouts) ==
    {e \in [DOMAIN fanouts -> 0..MaxFanout] :
        \A k \in DOMAIN fanouts : e[k] <= fanouts[k]}

LayoutTrees(max_depth) ==
    UNION {UNION {{ShapedTree(fanouts, expand, 1) :
                      expand \in Expansions(fanouts)} :
                  fanouts \in [1..d -> 1..MaxFanout]} :
           d \in 0..(max_depth - 1)}

\* x_limit * 1.6 for x_limit = 4, 6 and 10
AvailableWidths == {64 * Subdivisions, 96 * Subdivisions, 160 * Subdivisions}

ChildRegionMutantWholeRegion(left_bound, right_bound, num_children, i) ==
    <<left_bound, right_bound>>

\* child_regions[i - 1]: the whole region for a single child, else
\* (left_bound + (i-1) * region_width, left_bound + i * region_width)
ChildRegion(left_bound, right_bound, num_children, i) ==
    IF num_children = 1 THEN <<left_bound, right_bound>>
    ELSE LET region_width == (right_bound - left_bound) \div num_children
         IN <<left_bound + (i - 1) * region_width,
              left_bound + i * region_width>>

\* child_positions_x[i - 1]
ChildPositionX(x, left_bound, right_bound, num_children, i) ==
    IF num_children = 1 THEN x
    ELSE LET region == ChildRegion(left_bound, right_bound, num_children, i)
         IN (region[1] + region[2]) \div 2

\* layout_vertical_tree(node, x, ..., available_width, parent_left,
\* parent_right): the nodes in the order they are placed, each with its
\* path from the root, its x and the region it was given; bounded is
\* "parent_left is not None and parent_right is not None"
RECURSIVE LayoutVerticalTree(_, _, _, _, _, _, _)
RECURSIVE LayoutChildren(_, _, _, _, _, _)
LayoutVerticalTree(node, x, available_width, bounded, parent_left, parent_right, path) ==
    LET width == IF bounded THEN parent_right - parent_left
                 ELSE available_width
        left_bound == IF bounded THEN parent_left ELSE x - width \div 2
        right_bound == IF bounded THEN parent_right ELSE x + width \div 2
        placed == [path |-> path, x |-> x, left |-> left_bound,
                   right |-> right_bound]
    IN <<placed>> \o LayoutChildren(node.children, 1, x, left_bound,
                                    right_bound, path)
LayoutChildren(children, i, x, left_bound, right_bound, path) ==
    IF i > Len(children) THEN <<>>
    ELSE LET region == ChildRegion(left_bound, right_bound, Len(children), i)
             child_x == ChildPositionX(x, left_bound, right_bound,
                                       Len(children), i)
         IN LayoutVerticalTree(children[i], child_x, region[2] - region[1],
                               TRUE, region[1], region[2], Append(path, i))
                \o LayoutChildren(children, i + 1, x, left_bound,
                                  right_bound, path)

LayoutInit ==
    /\ tool = "vertical"
    /\ Quiet
    /\ call \in {Called("layout_vertical_tree", <<tree_data, available_width>>) :
                    tree_data \in LayoutTrees(MaxLayoutDepth),
                    available_width \in AvailableWidths}

\* positions = layout_vertical_tree(tree_data, available_width=available_width)
LayoutCall ==
    /\ call.pc = "called" /\ call.fn = "layout_vertical_tree"
    /\ call' = [call EXCEPT
                    !.result = LayoutVerticalTree(call.args[1], 0, call.args[2],
                                                  FALSE, 0, 0, <<>>),
                    !.pc = "returned"]
    /\ UNCHANGED <<tool, style_renderer, frame, parser>>

LayoutSpec == LayoutInit /\ [][LayoutCall]_vars

Placed == IF call.fn = "layout_vertical_tree" /\ call.pc = "returned"
          THEN {call.result[k] : k \in 1..Len(call.result)} ELSE {}

IsChildOf(c, p) ==
    Len(c.path) = Len(p.path) + 1 /\ SubSeq(c.path, 1, Len(p.path)) = p.path

IsWithin(d, c) ==
    Len(d.path) >= Len(c.path) /\ SubSeq(d.path, 1, Len(c.path)) = c.path

ChildrenOf(p) == {c \in Placed : IsChildOf(c, p)}

\* C23: for every node with N >= 2 children the children's regions are N
\* equal-width sub-intervals that partition the parent's region in sibling
\* order and overlap in no interior point (a single child inherits the whole
\* region); every child is at the centre of its region; and every
\* descendant of a child has its x inside that child's region.
C23_ChildrenPartitionRegion ==
    \A p \in Placed :
        LET n == Cardinality(ChildrenOf(p)) IN
        /\ \A c \in ChildrenOf(p) :
               LET i == c.path[Len(c.path)] IN
               /\ n * (c.right - c.left) = p.right - p.left
               /\ n * c.left = n * p.left + (i - 1) * (p.right - p.left)
               /\ 2 * c.x = c.left + c.right
               /\ \A d \in Placed :
                      IsWithin(d, c) => c.left <= d.x /\ d.x <= c.right
        /\ \A c1, c2 \in ChildrenOf(p) :
               c1.path[Len(c1.path)] < c2.path[Len(c2.path)]
                   => c1.right <= c2.left /\ c1.left < c1.right

\* a node with three children, one of which has two children of its own
C23_Witness ==
    \E p, c \in Placed :
        /\ Cardinality(ChildrenOf(p)) = 3
        /\ IsChildOf(c, p)
        /\ Cardinality(ChildrenOf(c)) = 2

---------------------------------------------------------------------------
(* Exact fractions n/d with d > 0, in lowest terms, for the layouts whose  *)
(* lengths are not whole multiples of one unit                             *)

Abs(a) == IF a < 0 THEN 0 - a ELSE a

Frac(n, d) == LET g == Gcd(Abs(n), d) IN [n |-> n \div g, d |-> d \div g]

Whole(k) == [n |-> k, d |-> 1]

Lcm(a, b) == (a \div Gcd(a, b)) * b

\* the numerator of a over the denominator Lcm(a.d, b.d)
Over(a, b) == a.n * (Lcm(a.d, b.d) \div a.d)

FAdd(a, b) == Frac(Over(a, b) + Over(b, a), Lcm(a.d, b.d))
FSub(a, b) == Frac(Over(a, b) - Over(b, a), Lcm(a.d, b.d))
FTimes(a, k) == Frac(a.n * k, a.d)
FOver(a, k) == Frac(a.n, a.d * k)
FLess(a, b) == Over(a, b) < Over(b, a)
FMax(a, b) == IF FLess(a, b) THEN b ELSE a
FMin(a, b) == IF FLess(a, b) THEN a ELSE b

---------------------------------------------------------------------------
(* The org chart layout: layout_org_chart, its horizontal part *)

\* _calculate_tree_width(node): the number of leaves
RECURSIVE CalculateTreeWidth(_)
RECURSIVE SumTreeWidths(_)
CalculateTreeWidth(node) ==
    IF node.children = <<>> THEN 1 ELSE SumTreeWidths(node.children)
SumTreeWidths(children) ==
    IF children = <<>> THEN 0
    ELSE CalculateTreeWidth(children[1]) + SumTreeWidths(Tail(children))

\* x_limit = max(14, tree_width * 1.8)
OrgChartXLimit(tree_data) ==
    FMax(Whole(14), Frac(CalculateTreeWidth(tree_data) * 18, 10))

\* child_spacing = max(2.5, min(available_width / num_children,
\*                              available_width / 2))
ChildSpacing(available_width, num_children) ==
    FMax(Frac(25, 10), FMin(FOver(available_width, num_children),
                            FOver(available_width, 2)))

\* layout_org_chart(node, x, y, depth_level, available_width): positions is
\* the nodes in the order they are placed, bars the horizontal connectors
\* drawn, each with the path and depth of the parent that drew it
RECURSIVE LayoutOrgChart(_, _, _, _, _)
RECURSIVE LayoutOrgChildren(_, _, _, _, _, _)
LayoutOrgChart(node, x, depth_level, available_width, path) ==
    LET placed == [path |-> path, x |-> x, depth_level |-> depth_level]
        num_children == Len(node.children)
    IN IF num_children = 0 THEN [positions |-> <<placed>>, bars |-> <<>>]
       ELSE LET child_spacing == ChildSpacing(available_width, num_children)
                total_width == FTimes(child_spacing, num_children - 1)
                start_x == FSub(x, FOver(total_width, 2))
                bar == IF num_children > 1
                       THEN <<[path |-> path, depth_level |-> depth_level,
                               leftmost_x |-> start_x,
                               rightmost_x |->
                                   FAdd(start_x, FTimes(child_spacing,
                                                        num_children - 1))]>>
                       ELSE <<>>
                below == LayoutOrgChildren(node.children, 1, start_x,
                                           child_spacing, depth_level, path)
            IN [positions |-> <<placed>> \o below.positions,
                bars |-> bar \o below.bars]
LayoutOrgChildren(children, i, start_x, child_spacing, depth_level, path) ==
    IF i > Len(children) THEN [positions |-> <<>>, bars |-> <<>>]
    ELSE LET child_x == FAdd(start_x, FTimes(child_spacing, i - 1))
             first == LayoutOrgChart(children[i], child_x, depth_level + 1,
                                     FOver(FTimes(child_spacing, 12), 10),
                                     Append(path, i))
             rest == LayoutOrgChildren(children, i + 1, start_x, child_spacing,
                                       depth_level, path)
         IN [positions |-> first.positions \o rest.positions,
             bars |-> first.bars \o rest.bars]

OrgLayoutInit ==
    /\ tool = "orgchart"
    /\ Quiet
    /\ call \in {Called("layout_org_chart", <<tree_data>>) :
                    tree_data \in LayoutTrees(MaxOrgDepth)}

\* positions = layout_org_chart(tree_data), with available_width None:
\* available_width = x_limit * 1.6
OrgLayoutCall ==
    /\ call.pc = "called" /\ call.fn = "layout_org_chart"
    /\ call' = [call EXCEPT
                    !.result =
                        LayoutOrgChart(call.args[1], Whole(0), 1,
                                       FOver(FTimes(OrgChartXLimit(call.args[1]),
                                                    16), 10),
                                       <<>>),
                    !.pc = "returned"]
    /\ UNCHANGED <<tool, style_renderer, frame, parser>>

OrgLayoutSpec == OrgLayoutInit /\ [][OrgLayoutCall]_vars

OrgReturned == call.fn = "layout_org_chart" /\ call.pc = "returned"

OrgPlaced == {call.result.positions[k] : k \in 1..Len(call.result.positions)}
OrgBars == {call.result.bars[k] : k \in 1..Len(call.result.bars)}

OrgChildrenOf(path) == {c \in OrgPlaced : IsChildOf(c, [path |-> path])}

\* C24: the horizontal bar of a parent spans exactly from its leftmost to
\* its rightmost child; the bars of two distinct parents at the same depth
\* that each have two or more children do not overlap; a parent with a
\* single child draws no bar.
C24_BarsSpanOwnChildrenOnly ==
    OrgReturned =>
        /\ \A p \in OrgPlaced :
               LET children == OrgChildrenOf(p.path)
                   bars == {b \in OrgBars : b.path = p.path}
               IN /\ Cardinality(children) <= 1 => bars = {}
                  /\ Cardinality(children) >= 2 =>
                         /\ Cardinality(bars) = 1
                         /\ \A b \in bars :
                                /\ \E c \in children : c.x = b.leftmost_x
                                /\ \E c \in children : c.x = b.rightmost_x
                                /\ \A c \in children :
                                       /\ ~FLess(c.x, b.leftmost_x)
                                       /\ ~FLess(b.rightmost_x, c.x)
        /\ \A b1, b2 \in OrgBars :
               (b1.path /= b2.path /\ b1.depth_level = b2.depth_level)
                   => \/ FLess(b1.rightmost_x, b2.leftmost_x)
                      \/ FLess(b2.rightmost_x, b1.leftmost_x)

\* ---------------------------------------------------------------------
\* Subcauses of the fishbone parser, read off the document's lines

\* the lines of the documents given to the fishbone parser here:
\* categories, causes of both spellings, and bullets indented by two spaces
\* and by one
FishboneLineChoices ==
    { <<"#", "#", " ", "B">>, <<"#", "#", "#", " ", "M">>, <<"-", " ", "c">>,
      <<" ", " ", "-", " ", "s">>, <<" ", " ", "*", " ", "u">>,
      <<" ", "-", " ", "t">>, <<"U3000", "U3000", "-", " ", "v">> }

ParseFishboneInit ==
    /\ tool = "fishbone"
    /\ style_renderer = NoConfig
    /\ frame = [i \in Invocations |-> IdleFrame]
    /\ parser \in {ParserAt(text) : text \in Documents(FishboneLineChoices)}
    /\ call = NoCall

ParseFishboneNext == FishboneBegin \/ FishboneProcessLine \/ FishboneReturn

ParseFishboneSpec == ParseFishboneInit /\ [][ParseFishboneNext]_vars

FishboneReturned == parser.pc = "returned" /\ tool = "fishbone"

\* The kinds of line the fishbone loop tells apart, on the line as the loop
\* sees it (right-stripped)
Seen(k) == RStrip(parser.lines[k])
IsCategoryLine(k) ==
    /\ ~Skipped(Seen(k)) /\ ~StartsWith(Seen(k), H1Prefix)
    /\ StartsWith(Seen(k), H2Prefix)
IsBulletLine(k) ==
    /\ ~Skipped(Seen(k)) /\ ~StartsWith(Seen(k), H1Prefix)
    /\ ~StartsWith(Seen(k), H2Prefix) /\ ~StartsWith(Seen(k), H3Prefix)
    /\ ReMatch(BulletItemPattern, Seen(k)).ok
IsCauseLine(k) ==
    /\ ~Skipped(Seen(k)) /\ ~StartsWith(Seen(k), H1Prefix)
    /\ ~StartsWith(Seen(k), H2Prefix)
    /\ \/ StartsWith(Seen(k), H3Prefix)
       \/ IsBulletLine(k) /\ LeadingSpaces(Seen(k)) = 0
IsSubcauseLine(k) == IsBulletLine(k) /\ LeadingSpaces(Seen(k)) >= 2

\* the m-th smallest member of a set of line numbers
Nth(S, m) == CHOOSE i \in S : Cardinality({j \in S : j < i}) = m - 1

CategoryLines == {k \in 1..Len(parser.lines) : IsCategoryLine(k)}

\* the line numbers after line `from` up to the next category line
SegmentAfter(from) ==
    {k \in (from + 1)..Len(parser.lines) :
        \A c \in CategoryLines : c > from => k < c}

\* the cause lines of the category opened at line c
CauseLinesOf(c) == {k \in SegmentAfter(c) : IsCauseLine(k)}

\* the indented bullets between the cause line k and the next cause line or
\* category line
SubcauseLinesOf(k) ==
    {j \in SegmentAfter(k) :
        /\ IsSubcauseLine(j)
        /\ \A q \in (k + 1)..j : ~IsCauseLine(q)}

SubcauseText(k) ==
    CleanMarkdownText(ReSubAtStart(BulletPrefixPattern, <<>>, Seen(k)))

\* C25: every subcause is attached to the most recently added cause of the
\* most recent category; an indented bullet met when the current category
\* has no cause yet, or before any category, is dropped and is never
\* attached to a cause of an earlier category.
C25_SubcausesUnderLatestCauseOfCurrentCategory ==
    FishboneReturned =>
        IF CategoryLines = {}
        THEN parser.result.categories
                 = FishboneResult(FishboneStart).categories
        ELSE /\ Len(parser.result.categories) = Cardinality(CategoryLines)
             /\ \A n \in 1..Cardinality(CategoryLines) :
                    LET causes == parser.result.categories[n].causes
                        cause_lines == CauseLinesOf(Nth(CategoryLines, n))
                    IN /\ Len(causes) = Cardinality(cause_lines)
                       /\ \A m \in 1..Len(causes) :
                              LET subs == SubcauseLinesOf(Nth(cause_lines, m))
                              IN causes[m].subcauses =
                                     [i \in 1..Cardinality(subs) |->
                                         SubcauseText(Nth(subs, i))]

\* a document whose second category opens with an indented bullet while
\* the first category has a cause: the bullet is in neither category
C25_Witness ==
    /\ FishboneReturned
    /\ Cardinality(CategoryLines) = 2
    /\ \E k \in 1..Len(parser.lines) :
           /\ IsSubcauseLine(k)
           /\ k = Nth(CategoryLines, 2) + 1
    /\ Len(parser.result.categories) = 2
    /\ Len(parser.result.categories[1].causes) = 1
    /\ parser.result.categories[1].causes[1].subcauses = <<>>
    /\ parser.result.categories[2].causes = <<>>

---------------------------------------------------------------------------
(* The circular layout: draw_circular_structure, the angles of its items *)

\* An angle is kept exactly as pi * angle.pi + angle.rad, two fractions;
\* math.pi is only known to lie strictly between PiLow and PiHigh
PiLow == Frac(31415, 10000)
PiHigh == Frac(31416, 10000)

Turns(f) == [pi |-> f, rad |-> Whole(0)]
Radians(f) == [pi |-> Whole(0), rad |-> f]

FProduct(a, b) == Frac(a.n * b.n, a.d * b.d)

AAdd(a, b) == [pi |-> FAdd(a.pi, b.pi), rad |-> FAdd(a.rad, b.rad)]
ASub(a, b) == [pi |-> FSub(a.pi, b.pi), rad |-> FSub(a.rad, b.rad)]
ATimes(a, k) == [pi |-> FTimes(a.pi, k), rad |-> FTimes(a.rad, k)]
AOver(a, k) == [pi |-> FOver(a.pi, k), rad |-> FOver(a.rad, k)]

\* the greatest value the angle can have
AMost(a) ==
    FAdd(FProduct(a.pi, IF a.pi.n < 0 THEN PiLow ELSE PiHigh), a.rad)

\* a < b whatever value math.pi has between its bounds
ALess(a, b) == FLess(AMost(ASub(a, b)), Whole(0))

AMin(a, b) == IF ALess(a, b) THEN a ELSE b

\* ring_radii, in tenths
RingRadii == <<25, 40, 55, 70>>

FirstThree(list) == SubSeq(list, 1, Min(3, Len(list)))

RingItem(text, level, category_index) ==
    [text |-> text, level |-> level, category_index |-> category_index]

\* all_ring_items: per category its name on level 0, its first three
\* items on level 1, its first three subcategories on level 2 and the
\* first three items of each of these on level 3
RECURSIVE SubcategoryItems(_, _)
SubcategoryItems(subcategories, i) ==
    IF subcategories = <<>> THEN <<>>
    ELSE LET subcat == subcategories[1]
         IN <<RingItem(subcat.name, 2, i)>>
                \o [k \in 1..Len(FirstThree(subcat.items)) |->
                       RingItem(subcat.items[k], 3, i)]
                \o SubcategoryItems(Tail(subcategories), i)

RECURSIVE AllRingItems(_, _)
AllRingItems(categories, i) ==
    IF i >= Len(categories) THEN <<>>
    ELSE LET category == categories[i + 1]
         IN <<RingItem(category.name, 0, i)>>
                \o [k \in 1..Len(FirstThree(category.items)) |->
                       RingItem(category.items[k], 1, i)]
                \o SubcategoryItems(FirstThree(category.subcategories), i)
                \o AllRingItems(categories, i + 1)

\* what store_text_element is given, with the angle in place of
\* radius * cos(angle) and radius * sin(angle)
Stored(item, radius, angle) ==
    [text |-> item.text, depth_level |-> item.level + 1,
     category_index |-> item.category_index, radius |-> radius,
     angle |-> angle]

\* the angle of item i (from 0) of the count >= 2 items of a category
\* on one ring
ItemAngle(category_angle, angle_range, count, i) ==
    LET center_bias == Frac(7, 10)
        half == AOver(ATimes(angle_range, center_bias.n), 2 * center_bias.d)
        start_angle == ASub(category_angle, half)
        end_angle == AAdd(category_angle, half)
        min_angle_gap == Frac(2, 10)
        actual_range == AMin(ASub(end_angle, start_angle),
                             Radians(FTimes(min_angle_gap, count - 1)))
    IN AAdd(start_angle, AOver(ATimes(actual_range, i), count - 1))

\* the items of one category on one ring beyond the innermost
CategoryGroup(cat_items, cat_idx, total_categories, level) ==
    LET category_angle == Turns(Frac(2 * cat_idx, total_categories))
        angle_range == Turns(Frac(2 * 6, total_categories * 10))
    IN IF Len(cat_items) = 1
       THEN <<Stored(cat_items[1], RingRadii[level + 1], category_angle)>>
       ELSE [k \in 1..Len(cat_items) |->
                Stored(cat_items[k], RingRadii[level + 1],
                       ItemAngle(category_angle, angle_range,
                                 Len(cat_items), k - 1))]

RECURSIVE CategoryGroups(_, _, _, _)
CategoryGroups(level_items, cat_idx, total_categories, level) ==
    IF cat_idx >= total_categories THEN <<>>
    ELSE LET InGroup(item) == item.category_index = cat_idx
             cat_items == SelectSeq(level_items, InGroup)
         IN (IF cat_items = <<>> THEN <<>>
             ELSE CategoryGroup(cat_items, cat_idx, total_categories, level))
                \o CategoryGroups(level_items, cat_idx + 1,
                                  total_categories, level)

\* one pass of: for level in range(4)
RingLevel(all_ring_items, total_categories, level) ==
    LET OnLevel(item) == item.level = level
        level_items == SelectSeq(all_ring_items, OnLevel)
    IN IF level = 0
       THEN [k \in 1..Len(level_items) |->
                Stored(level_items[k], RingRadii[1],
                       Turns(Frac(2 * (k - 1), Len(level_items))))]
       ELSE CategoryGroups(level_items, 0, total_categories, level)

\* draw_circular_structure(): the calls of store_text_element in order
DrawCircularStructure(circular_data) ==
    LET categories == circular_data.categories
        all_ring_items == AllRingItems(categories, 0)
    IN IF categories = <<>> THEN <<>>
       ELSE <<[text |-> circular_data.center, depth_level |-> 1,
               category_index |-> -1, radius |-> 0,
               angle |-> Turns(Whole(0))]>>
                \o RingLevel(all_ring_items, Len(categories), 0)
                \o RingLevel(all_ring_items, Len(categories), 1)
                \o RingLevel(all_ring_items, Len(categories), 2)
                \o RingLevel(all_ring_items, Len(categories), 3)

\* Categories as the circular parser returns them: n items each "i"
ItemList(n) == [k \in 1..n |-> <<"i">>]
Subcategory(n) == [name |-> <<"s">>, items |-> ItemList(n)]
Category(n, subcategories) ==
    [name |-> <<"c">>, items |-> ItemList(n),
     subcategories |-> subcategories]

CategoryChoices ==
    { Category(0, <<>>), Category(1, <<>>), Category(2, <<>>),
      Category(4, <<>>),
      Category(0, <<Subcategory(1), Subcategory(0)>>),
      Category(0, <<Subcategory(3), Subcategory(3), Subcategory(3)>>) }

CircularDataOf(max_categories) ==
    {[center |-> <<"t">>, categories |-> categories] :
        categories \in UNION {[1..n -> CategoryChoices] :
                                 n \in 1..max_categories}}

CircularLayoutInit ==
    /\ tool = "circular"
    /\ Quiet
    /\ call \in {Called("draw_circular_structure", <<circular_data>>) :
                    circular_data \in CircularDataOf(MaxCategories)}

CircularLayoutCall ==
    /\ call.pc = "called" /\ call.fn = "draw_circular_structure"
    /\ call' = [call EXCEPT !.result = DrawCircularStructure(call.args[1]),
                            !.pc = "returned"]
    /\ UNCHANGED <<tool, style_renderer, frame, parser>>

CircularLayoutSpec == CircularLayoutInit /\ [][CircularLayoutCall]_vars

CircularDrawn ==
    call.fn = "draw_circular_structure" /\ call.pc = "returned"

\* the angles given to the items of category cat_idx on the ring of
\* depth_level, in the order they are drawn
SiblingAngles(cat_idx, depth_level) ==
    LET IsSibling(e) ==
            e.category_index = cat_idx /\ e.depth_level = depth_level
        siblings == SelectSeq(call.result, IsSibling)
    IN [k \in 1..Len(siblings) |-> siblings[k].angle]

\* C26: for every category with two or more items on the same ring level
\* (levels 1 to 3), the angles of consecutive sibling items differ by at
\* least 0.2 radians.
C26_SiblingGapAtLeastMinimum ==
    CircularDrawn =>
        \A cat_idx \in 0..(Len(call.args[1].categories) - 1) :
            \A depth_level \in 2..4 :
                LET angles == SiblingAngles(cat_idx, depth_level)
                IN \A k \in 1..(Len(angles) - 1) :
                       ~ALess(ASub(angles[k + 1], angles[k]),
                              Radians(Frac(2, 10)))

---------------------------------------------------------------------------
(* The timeline layout: draw_timeline_structure, the vertical placement of
   the detail stacks.  Lengths are in thousandths; every patch of an event
   is centred on the same event_x, which is left out. *)

\* the axis is at timeline_y = 0; the node ellipse is 2.2 wide and 0.9
\* high; the boxes are 1.8 wide and 0.5 high, 0.05 apart, around a centre
\* 2.2 from the axis, and drawn with boxstyle "round,pad=0.05"; the
\* connecting line starts 0.5 from the axis
TimelineGeometry ==
    [timeline_y |-> 0, node_width |-> 2200, node_height |-> 900,
     dot_offset |-> 500, details_offset |-> 2200,
     box_width |-> 1800, box_height |-> 500, spacing |-> 50,
     boxstyle |-> "round", pad |-> 50]

FirstFive(list) == SubSeq(list, 1, Min(5, Len(list)))

\* display_texts: the name if there is one, the first five details and the
\* first five milestones
DisplayTexts(event) ==
    (IF event.name /= <<>> THEN <<event.name>> ELSE <<>>)
        \o FirstFive(event.details) \o FirstFive(event.milestones)

\* One pass of the loop over total_nodes: the node on the axis, the boxes
\* of the stack from the first text to the last and the connecting line
DrawEvent(i, event) ==
    LET g == TimelineGeometry
        timeline_y == g.timeline_y
        has_stack == event.name /= <<>> \/ event.details /= <<>>
                         \/ event.milestones /= <<>>
        is_upper == i % 2 = 0
        details_y == timeline_y + (IF is_upper THEN g.details_offset
                                   ELSE 0 - g.details_offset)
        display_texts == IF has_stack THEN DisplayTexts(event) ELSE <<>>
        count == Len(display_texts)
        total_height == count * g.box_height + (count - 1) * g.spacing
        start_y == details_y + total_height \div 2 - g.box_height \div 2
        line_start_y == timeline_y + (IF is_upper THEN g.dot_offset
                                      ELSE 0 - g.dot_offset)
        line_end_y ==
            IF is_upper THEN start_y - g.box_height \div 2
            ELSE start_y - (count - 1) * (g.box_height + g.spacing)
                     + g.box_height \div 2
    IN [index |-> i, time |-> event.time, is_upper |-> is_upper,
        node |-> [y |-> timeline_y, width |-> g.node_width,
                  height |-> g.node_height],
        boxes |-> [j \in 1..count |->
                      LET box_y == start_y
                                       - (j - 1) * (g.box_height + g.spacing)
                      IN [text |-> display_texts[j], box_y |-> box_y,
                          bottom |-> box_y - g.box_height \div 2,
                          width |-> g.box_width, height |-> g.box_height,
                          boxstyle |-> g.boxstyle, pad |-> g.pad]],
        line |-> IF count > 0
                 THEN <<[line_start_y |-> line_start_y,
                         line_end_y |-> line_end_y]>>
                 ELSE <<>>]

PendingTime == <<"U5F85", "U5B9A">>

\* draw_timeline_structure(): whether the title node is drawn, and the
\* events with the pending node after them
DrawTimelineStructure(timeline_data) ==
    LET title == timeline_data.title
        events == timeline_data.events
        total_nodes == Append(events, [time |-> PendingTime, name |-> <<>>,
                                       details |-> <<>>,
                                       milestones |-> <<>>])
    IN [title_node |-> title /= <<>> /\ title /= TimelineDefaultTitle,
        nodes |-> IF events = <<>> THEN <<>>
                  ELSE [k \in 1..Len(total_nodes) |->
                           DrawEvent(k - 1, total_nodes[k])]]

\* Events as the timeline parser returns them
TextList(n) == [k \in 1..n |-> <<"d">>]
EventChoices ==
    {[time |-> <<"1">>, name |-> name, details |-> TextList(d),
      milestones |-> TextList(m)] :
        name \in {<<>>, <<"n">>}, d \in 0..MaxDetails, m \in 0..MaxDetails}

TimelineDataOf(max_events) ==
    {[title |-> title, events |-> events] :
        title \in {TimelineDefaultTitle, <<"T">>},
        events \in UNION {[1..n -> EventChoices] : n \in 1..max_events}}

TimelineLayoutInit ==
    /\ tool = "timeline"
    /\ Quiet
    /\ call \in {Called("draw_timeline_structure", <<timeline_data>>) :
                    timeline_data \in TimelineDataOf(MaxEvents)}

TimelineLayoutCall ==
    /\ call.pc = "called" /\ call.fn = "draw_timeline_structure"
    /\ call' = [call EXCEPT !.result = DrawTimelineStructure(call.args[1]),
                            !.pc = "returned"]
    /\ UNCHANGED <<tool, style_renderer, frame, parser>>

TimelineLayoutSpec == TimelineLayoutInit /\ [][TimelineLayoutCall]_vars

TimelineDrawn ==
    call.fn = "draw_timeline_structure" /\ call.pc = "returned"

DrawnNodes == {call.result.nodes[k] : k \in 1..Len(call.result.nodes)}
BoxesOf(node) == {node.boxes[k] : k \in 1..Len(node.boxes)}

\* The edges of a box are those of the rectangle handed to FancyBboxPatch,
\* 0.5 high as in section 4.11; the rounded outline is drawn box.pad
\* outside it
Top(box) == box.bottom + box.height

\* C27: for every event with a stack of 1 to 11 boxes the single
\* connecting line starts at the axis node, on the side of the stack, and
\* ends at the edge of the stack nearest to the axis: the bottom edge of
\* the lowest box of a stack above the axis, the top edge of the highest
\* box of a stack below it; it passes through no box of the stack.
C27_LineEndsAtNearestEdge ==
    TimelineDrawn =>
        \A node \in DrawnNodes :
            Len(node.boxes) \in 1..11 =>
                /\ Len(node.line) = 1
                /\ LET line == node.line[1]
                       low == Min(line.line_start_y, line.line_end_y)
                       high == Max(line.line_start_y, line.line_end_y)
                   IN /\ line.line_start_y =
                             node.node.y
                                 + (IF node.is_upper
                                    THEN TimelineGeometry.dot_offset
                                    ELSE 0 - TimelineGeometry.dot_offset)
                      /\ node.is_upper =>
                             \A box \in BoxesOf(node) :
                                 line.line_end_y <= box.bottom
                      /\ ~node.is_upper =>
                             \A box \in BoxesOf(node) :
                                 line.line_end_y >= Top(box)
                      /\ \E box \in BoxesOf(node) :
                             line.line_end_y \in {box.bottom, Top(box)}
                      /\ \A box \in BoxesOf(node) :
                             high <= box.bottom \/ low >= Top(box)

\* C28: a stack holds at most 11 boxes, and every box lies wholly on the
\* event's side of the axis, strictly above it for an even event index
\* and strictly below it for an odd one, clear of the axis and of the
\* event's node ellipse.
C28_StackOnOwnSideOfAxis ==
    TimelineDrawn =>
        \A node \in DrawnNodes :
            /\ Len(node.boxes) <= 11
            /\ node.is_upper = (node.index % 2 = 0)
            /\ \A box \in BoxesOf(node) :
                   IF node.is_upper
                   THEN /\ box.bottom > node.node.y
                        /\ box.bottom >= node.node.y + node.node.height \div 2
                   ELSE /\ Top(box) < node.node.y
                        /\ Top(box) <= node.node.y - node.node.height \div 2

---------------------------------------------------------------------------
(* SVGRenderer.add_node and the shape names of NodeShape *)

\* the values of the enumeration NodeShape
NodeShapeValues ==
    {"rectangle", "rounded_rectangle", "circle", "ellipse", "diamond",
     "hexagon"}

\* the shape add_node takes when it is given none
DefaultShape == "rounded_rect"

\* The elements add_node(x, y, width, height, shape) appends to self.svg,
\* with the numbers that are formatted into their attributes; width and
\* height are even here, so that width/2 and height/2 are whole
AddNodeElements(x, y, width, height, shape) ==
    IF shape = "rectangle"
    THEN <<[tag |-> "rect", x |-> x - width \div 2, y |-> y - height \div 2,
            width |-> width, height |-> height, rx |-> 0, ry |-> 0]>>
    ELSE IF shape = "rounded_rect"
    THEN <<[tag |-> "rect", x |-> x - width \div 2, y |-> y - height \div 2,
            width |-> width, height |-> height, rx |-> 5, ry |-> 5]>>
    ELSE IF shape = "circle"
    THEN <<[tag |-> "circle", cx |-> x, cy |-> y,
            r |-> Min(width, height) \div 2]>>
    ELSE IF shape = "ellipse"
    THEN <<[tag |-> "ellipse", cx |-> x, cy |-> y, rx |-> width \div 2,
            ry |-> height \div 2]>>
    ELSE IF shape = "diamond"
    THEN <<[tag |-> "polygon",
            points |-> <<<<x, y - height \div 2>>, <<x + width \div 2, y>>,
                         <<x, y + height \div 2>>,
                         <<x - width \div 2, y>>>>]>>
    ELSE <<>>

NodeCentres == {0, 10}
NodeSizes == {4, 6}

\* a renderer just constructed: call.args is the calls of add_node made so
\* far and call.result the elements they appended to self.svg
SvgNodeInit ==
    /\ tool \in Tools
    /\ Quiet
    /\ call = [pc |-> "open", fn |-> "add_node", args |-> <<>>,
               result |-> <<>>]

AddNode ==
    /\ call.fn = "add_node" /\ call.pc = "open"
    /\ Len(call.args) < MaxAddNodes
    /\ \E x, y \in NodeCentres, width, height \in NodeSizes,
          shape \in NodeShapeValues \cup {DefaultShape} :
           call' = [call EXCEPT
                        !.args = Append(@, [x |-> x, y |-> y, width |-> width,
                                            height |-> height,
                                            shape |-> shape]),
                        !.result = @ \o AddNodeElements(x, y, width, height,
                                                        shape)]
    /\ UNCHANGED <<tool, style_renderer, frame, parser>>

SvgNodeSpec == SvgNodeInit /\ [][AddNode]_vars

\* C29: add_node appends exactly one shape element for each of the six
\* shape names rectangle, rounded_rectangle, circle, ellipse, diamond and
\* hexagon; none of them is silently ignored.
C29_EveryShapeNameDrawsOneElement ==
    [][(/\ call.fn = "add_node"
        /\ Len(call'.args) = Len(call.args) + 1
        /\ call'.args[Len(call'.args)].shape \in NodeShapeValues)
           => Len(call'.result) = Len(call.result) + 1]_vars

---------------------------------------------------------------------------
(* The text elements a render stores: the calls of store_text_element its  *)
(* layout pass makes for the structure parsed from the text                *)

RECURSIVE SumSeq(_)
SumSeq(numbers) ==
    IF numbers = <<>> THEN 0 ELSE numbers[1] + SumSeq(Tail(numbers))

\* layout_vertical_tree, layout_org_chart: one for the node, then those
\* of every child
RECURSIVE TreeTexts(_)
TreeTexts(node) ==
    1 + SumSeq([k \in 1..Len(node.children) |-> TreeTexts(node.children[k])])

\* draw_fishbone_structure: the problem, and for every category its name,
\* its causes and their subcauses
FishboneTexts(fishbone_data) ==
    LET CauseTexts(cause) == 1 + Len(cause.subcauses)
        CategoryTexts(category) ==
            1 + SumSeq([k \in 1..Len(category.causes) |->
                           CauseTexts(category.causes[k])])
    IN 1 + SumSeq([k \in 1..Len(fishbone_data.categories) |->
                      CategoryTexts(fishbone_data.categories[k])])

\* draw_timeline_structure: the title when its node is drawn, and for every
\* node the time and the texts of its boxes
TimelineTexts(timeline_data) ==
    LET drawn == DrawTimelineStructure(timeline_data)
    IN (IF drawn.title_node THEN 1 ELSE 0)
           + SumSeq([k \in 1..Len(drawn.nodes) |->
                        1 + Len(drawn.nodes[k].boxes)])

\* self._parse_markdown_to_tree / _fishbone / _circular / _timeline of the
\* tool, as a whole
ParseMarkdownToStructure(t, markdown_text) ==
    CASE t \in {"vertical", "orgchart"} -> ParseMarkdownToTree(markdown_text, t)
      [] t = "fishbone" -> ParseMarkdownToFishbone(markdown_text)
      [] t = "circular" -> ParseMarkdownToCircular(markdown_text)
      [] t = "timeline" -> ParseMarkdownToTimeline(markdown_text)

\* len(text_elements) after the layout pass of a tool on its parsed structure
TextElements(t, data) ==
    CASE t \in {"vertical", "orgchart"} -> TreeTexts(data)
      [] t = "fishbone" -> FishboneTexts(data)
      [] t = "circular" -> Len(DrawCircularStructure(data))
      [] t = "timeline" -> TimelineTexts(data)

\* len(text_elements) for every tool and every text an invocation is called
\* with
StoredTexts ==
    [t \in {ToolKind(u) : u \in Tools} |->
        [markdown_text \in MarkdownTexts |->
            TextElements(t, ParseMarkdownToStructure(t, markdown_text))]]

---------------------------------------------------------------------------
(* The steps of one _invoke call *)

\* tool._invoke(p) is called with a parameter map of maps and the iteration
\* of the generator starts
CallWith(i, maps) ==
    /\ frame[i].pc = "idle"
    /\ \E p \in maps :
          Set(i, [IdleFrame EXCEPT !.pc = "start", !.tool_parameters = p])
    /\ UNCHANGED <<tool, style_renderer, parser, call>>

\* The host of section 5 runs one invocation at a time
OthersIdle(i) == \A j \in Invocations \ {i} : frame[j].pc = "idle"

\* The host calls tool._invoke(p) and starts to iterate the generator
Call(i) == OthersIdle(i) /\ CallWith(i, ParamMaps)

\* The same call made from a thread of its own
CallThreaded(i) == CallWith(i, ThreadedParamMaps(i))

\* The host's call with one of the inputs of the fair specification
CallScoped(i) == OthersIdle(i) /\ CallWith(i, ScopedParamMaps)

\* tool_parameters.get(...) twice, then PRESET_STYLES.get(style_preset, ...)
ReadParams(i) ==
    LET f == frame[i]
        md == Get(f.tool_parameters.markdown_text, Str(<<>>))
        sp == Get(f.tool_parameters.style_preset,
                  Str(DefaultPreset(ToolKind(tool))))
        g == [f EXCEPT !.markdown_text = md, !.style_preset = sp]
    IN /\ f.pc = "start"
       /\ IF sp.t = "list"
          THEN Set(i, Raise(g))            \* TypeError: unhashable type
          ELSE Set(i, [g EXCEPT !.style_config =
                                    PresetLookup(ToolKind(tool), sp),
                                !.pc = "check"])
       /\ UNCHANGED <<tool, style_renderer, parser, call>>

\* if not markdown_text.strip(): yield text; return
IsEmptyInputMutantNoStrip(md) == md.v = <<>>
IsEmptyInput(md) ==
    IF md.t = "bytes"
    THEN \A k \in 1..Len(md.v) : md.v[k] \in BytesWhitespaceChars
    ELSE Strip(md.v) = <<>>

CheckEmpty(i) ==
    LET f == frame[i] IN
    /\ f.pc = "check"
    /\ IF f.markdown_text.t \notin {"str", "bytes"}
       THEN Set(i, Raise(f))               \* AttributeError: no strip()
       ELSE IF IsEmptyInput(f.markdown_text)
            THEN Set(i, Yield(f, TextMessage("invalid_input"), "yield_invalid"))
            ELSE Set(i, [f EXCEPT !.pc = "parse"])
    /\ UNCHANGED <<tool, style_renderer, parser, call>>

\* data = self._parse_markdown_to_<structure>(markdown_text): split('\n')
\* raises on bytes; the structure parsed from a string decides how many text
\* elements the render will store
ParseMarkdown(i) ==
    LET f == frame[i] IN
    /\ f.pc = "parse"
    /\ IF f.markdown_text.t = "bytes"
       THEN Set(i, Raise(f))               \* TypeError in strip().split('\n')
       ELSE Set(i, [f EXCEPT !.tree_size =
                                 StoredTexts[ToolKind(tool)][f.markdown_text.v],
                             !.pc = "mkdtemp"])
    /\ UNCHANGED <<tool, style_renderer, parser, call>>

\* with tempfile.TemporaryDirectory() as temp_dir: the directory is made, or
\* mkdtemp raises (no usable temporary directory) inside the try body
EnterTempDir(i) ==
    LET f == frame[i] IN
    /\ f.pc = "mkdtemp"
    /\ \/ Set(i, [f EXCEPT !.temp_dir = TRUE, !.dirs_created = @ + 1,
                           !.pc = "render"])
       \/ Set(i, Raise(f))
    /\ UNCHANGED <<tool, style_renderer, parser, call>>

\* _generate_png_mindmap: self.style_renderer = StyleRenderer(style_config)
RenderInit(i) ==
    LET f == frame[i] IN
    /\ f.pc = "render"
    /\ style_renderer' = f.style_config
    /\ Set(i, [f EXCEPT !.pc = "figure"])
    /\ UNCHANGED <<tool, parser, call>>

\* the font setup, the imports, the canvas size and plt.subplots, then
\* fig.patch.set_facecolor(self.style_renderer.get_background_color())
RenderFigure(i) ==
    LET f == frame[i] IN
    /\ f.pc = "figure"
    /\ Set(i, [f EXCEPT !.used = @ \cup {style_renderer}, !.pc = "layout"])
    /\ UNCHANGED <<tool, style_renderer, parser, call>>

\* the layout pass on one node: self.style_renderer.get_color,
\* get_node_style (store_text_element), get_line_style
RenderLayout(i) ==
    LET f == frame[i] IN
    /\ f.pc = "layout"
    /\ f.laid_out < f.tree_size
    /\ Set(i, [f EXCEPT !.laid_out = @ + 1, !.text_elements = @ + 1,
                        !.used = @ \cup {style_renderer}])
    /\ UNCHANGED <<tool, style_renderer, parser, call>>

\* plt.savefig(temp_matplotlib_file, facecolor=self.style_renderer...)
RenderSaveFig(i) ==
    LET f == frame[i] IN
    /\ f.pc = "layout"
    /\ f.laid_out = f.tree_size
    /\ Set(i, [f EXCEPT !.files = @ \cup {"temp_matplotlib"},
                        !.used = @ \cup {style_renderer},
                        !.pc = "draw"])
    /\ UNCHANGED <<tool, style_renderer, parser, call>>

\* Whether _draw_text_with_pil of tool t can reach its call of
\* self.style_renderer.draw_node_shape for the k-th stored text element:
\* the vertical tool calls it for every element; the org chart tool draws the
\* box itself; the fishbone tool calls it only under show_background, which
\* its store_text_element sets to False for every element; the circular tool
\* stores the elements of its inner rings with show_background True; the
\* timeline tool stores only the title, its first element, with it.
DrawsNodeShape(t, k) ==
    CASE t = "vertical" -> TRUE
      [] t = "orgchart" -> FALSE
      [] t = "fishbone" -> FALSE
      [] t = "circular" -> TRUE
      [] t = "timeline" -> k = 1

\* _draw_text_with_pil on one text element.  It reads self.style_renderer
\* when it reaches draw_node_shape: not when show_background is False, when
\* no font can be loaded (it returns) or when an exception comes first.  It
\* catches every exception it raises and returns normally.
RenderDrawText(i) ==
    LET f == frame[i] IN
    /\ f.pc = "draw"
    /\ f.drawn < f.text_elements
    /\ \E reads \in {FALSE, DrawsNodeShape(ToolKind(tool), f.drawn + 1)},
          fails \in BOOLEAN :
          Set(i, [f EXCEPT !.drawn = @ + 1,
                           !.draw_errors = IF fails THEN @ + 1 ELSE @,
                           !.used = IF reads THEN @ \cup {style_renderer}
                                             ELSE @])
    /\ UNCHANGED <<tool, style_renderer, parser, call>>

\* img.save(output_file, 'PNG', ...)
RenderSaveImage(i) ==
    LET f == frame[i] IN
    /\ f.pc = "draw"
    /\ f.drawn = f.text_elements
    /\ Set(i, [f EXCEPT !.files = @ \cup {"output"}, !.pc = "remove_temp"])
    /\ UNCHANGED <<tool, style_renderer, parser, call>>

\* os.remove(temp_matplotlib_file); return True
RenderRemoveTemp(i) ==
    LET f == frame[i] IN
    /\ f.pc = "remove_temp"
    /\ Set(i, [f EXCEPT !.files = @ \ {"temp_matplotlib"}, !.success = TRUE,
                        !.pc = "rendered"])
    /\ UNCHANGED <<tool, style_renderer, parser, call>>

\* except Exception in _generate_png_mindmap: return False
RenderFail(i) ==
    LET f == frame[i] IN
    /\ f.pc \in RenderPcs
    /\ Set(i, [f EXCEPT !.success = FALSE, !.pc = "rendered"])
    /\ UNCHANGED <<tool, style_renderer, parser, call>>

\* if success and os.path.exists(output_file): read it, yield the blob
EmitBlob(i) ==
    LET f == frame[i] IN
    /\ f.pc = "rendered"
    /\ f.success /\ "output" \in f.files
    /\ Set(i, Yield(f, BlobMessage, "yield_blob"))
    /\ UNCHANGED <<tool, style_renderer, parser, call>>

\* open()/read() of the output file raises: the with block is left by the
\* exception, so TemporaryDirectory.__exit__ runs before the handler
ReadOutputFails(i) ==
    LET f == frame[i] IN
    /\ f.pc = "rendered"
    /\ f.success /\ "output" \in f.files
    /\ \E g \in LeaveScope(f, "except") : Set(i, Raise(g))
    /\ UNCHANGED <<tool, style_renderer, parser, call>>

\* else: yield the failure text
EmitRenderFailed(i) ==
    LET f == frame[i] IN
    /\ f.pc = "rendered"
    /\ ~(f.success /\ "output" \in f.files)
    /\ Set(i, Yield(f, TextMessage("render_failed"), "yield_failed"))
    /\ UNCHANGED <<tool, style_renderer, parser, call>>

\* resumed after the blob: yield the success text
EmitSuccess(i) ==
    LET f == frame[i] IN
    /\ f.pc = "yield_blob"
    /\ Set(i, Yield(f, SuccessText, "yield_success"))
    /\ UNCHANGED <<tool, style_renderer, parser, call>>

\* resumed after the last yield of the with block: leave it, end
ExitScope(i) ==
    LET f == frame[i] IN
    /\ f.pc \in {"yield_success", "yield_failed"}
    /\ \E g \in LeaveScope(f, "done") : Set(i, g)
    /\ UNCHANGED <<tool, style_renderer, parser, call>>

\* except Exception as e: yield the error text
OnExceptionMutantReraise(f) == [f EXCEPT !.escaped = TRUE, !.pc = "done"]
OnException(f) == Yield(f, TextMessage("error"), "yield_error")

HandleException(i) ==
    LET f == frame[i] IN
    /\ f.pc = "except"
    /\ Set(i, OnException(f))
    /\ UNCHANGED <<tool, style_renderer, parser, call>>

\* resumed after the early-return text or the error text: the generator ends
Return(i) ==
    LET f == frame[i] IN
    /\ f.pc \in {"yield_invalid", "yield_error"}
    /\ Set(i, [f EXCEPT !.pc = "done"])
    /\ UNCHANGED <<tool, style_renderer, parser, call>>

\* the host drops the exhausted generator and its messages
Release(i) ==
    /\ frame[i].pc = "done"
    /\ Set(i, IdleFrame)
    /\ UNCHANGED <<tool, style_renderer, parser, call>>

Step(i) ==
    \/ ReadParams(i) \/ CheckEmpty(i) \/ ParseMarkdown(i) \/ EnterTempDir(i)
    \/ RenderInit(i) \/ RenderFigure(i) \/ RenderLayout(i) \/ RenderSaveFig(i)
    \/ RenderDrawText(i) \/ RenderSaveImage(i) \/ RenderRemoveTemp(i)
    \/ RenderFail(i) \/ EmitBlob(i) \/ ReadOutputFails(i)
    \/ EmitRenderFailed(i) \/ EmitSuccess(i) \/ ExitScope(i)
    \/ HandleException(i) \/ Return(i) \/ Release(i)

Next == \E i \in Invocations : Call(i) \/ Step(i)

Spec == Init /\ [][Next]_vars

NextThreaded == \E i \in Invocations : CallThreaded(i) \/ Step(i)

SpecThreaded == Init /\ [][NextThreaded]_vars

NextScoped == \E i \in Invocations : CallScoped(i) \/ Step(i)

\* The case the claim about the temporary directory speaks of: every started
\* call runs on and the host iterates its generator to the end.  The source
\* does not make the host do so; a directory that outlives an invocation
\* under this assumption outlives it without it too.
FairSpec ==
    Init /\ [][NextScoped]_vars /\ \A i \in Invocations : WF_vars(Step(i))

=============================================================================
